---- MODULE Spec2Model ----
(***************************************************************************)
(* A model of scripts/vibe-sync.py: the language chunkers, the sync engine *)
(* that fills the store, and the search primitives that read it.           *)
(*                                                                         *)
(* Text is modelled line by line.  A line is a record that says what the   *)
(* regular expressions and the scanners of the program can see in it: the  *)
(* declaration keyword it starts with (kw), the declared name, the width   *)
(* of its leading white space (indent) and the numbers of '{' and '}'      *)
(* characters it holds (opens, closes).  A name is a sequence of           *)
(* one-character strings, so that prefix/substring/letter-case tests are   *)
(* computed and not assumed.  Line numbers are 0-based inside the          *)
(* chunkers, as in the program, and 1-based in the chunks they return.     *)
(***************************************************************************)
EXTENDS Integers, Sequences, FiniteSets, TLC

VARIABLES
    input,        \* chunker under test: [ext, lines]
    output,       \* what chunk() returned for input
    cpc,          \* "input" before chunk() is applied, "done" after, "off"
    tree,         \* the source trees: tree[project][path] is "absent",
                  \* "unreadable" or the id of the file's text
    ollama,       \* is the embedding provider reachable with the model loaded
    code_chunks,  \* committed rows of table code_chunks, in rowid order
    symbols,      \* committed rows of table symbols
    components,   \* committed rows of table components
    sync_events,  \* committed rows of table sync_events
    fts,          \* what the full-text indices hold: the rows at the last rebuild
    seqno,        \* sqlite_sequence: the largest rowid ever used, per table
    schema,       \* have the tables of the store been created (ensure_schema)
    pc,           \* position of the sync run: "idle", "files", "fts", "audit"
    run,          \* the running sync: project, flags, stats, pending files
                  \* and the rows of its open transaction
    ret,          \* what the last sync call did: returned stats or raised
    hist,         \* per project: the last two completed runs
    dirty,        \* per project: was the tree edited since the last completed run
    nsyncs,       \* number of sync calls made so far
    search        \* the last search call and its result

chunkVars == <<input, output, cpc>>
storeVars == <<code_chunks, symbols, components, sync_events, fts, seqno, schema>>
syncVars == <<pc, run, ret, hist, dirty, nsyncs>>

----------------------------------------------------------------------------
(* Bounds *)

MaxLines == 4
MaxSyncs == 2
MaxRows == 3
MaxLimit == 3

----------------------------------------------------------------------------
(* Characters and names *)

Upper == {"A", "F", "X"}

None == <<>>

Min(a, b) == IF a <= b THEN a ELSE b

nf == <<"f">>
ng == <<"g">>
nFo == <<"F", "o">>
nuseXy == <<"u", "s", "e", "X", "y">>
nA == <<"A">>
nm == <<"m">>
nx == <<"x">>
nr == <<"r">>

Line(kw, name, indent, opens, closes) ==
    [kw |-> kw, name |-> name, indent |-> indent, opens |-> opens, closes |-> closes]

\* ([A-Z]\w+): an upper-case letter followed by at least one more character
IsComponentName(n) == Len(n) >= 2 /\ n[1] \in Upper

\* (use[A-Z]\w+)
IsHookName(n) ==
    /\ Len(n) >= 5
    /\ n[1] = "u" /\ n[2] = "s" /\ n[3] = "e"
    /\ n[4] \in Upper

----------------------------------------------------------------------------
(* Candidates and chunks *)

Cand(t, n, s, e, p) ==
    [chunk_type |-> t, name |-> n, start |-> s, end |-> e, parent |-> p]

\* key=lambda x: (x[2], -(x[3] - x[2]))
KeyLess(a, b) ==
    \/ a.start < b.start
    \/ a.start = b.start /\ (a.end - a.start) > (b.end - b.start)

\* list.sort is stable: x goes after every element that is not greater
RECURSIVE InsertCand(_, _)
InsertCand(s, x) ==
    IF s = <<>> THEN <<x>>
    ELSE IF KeyLess(x, s[Len(s)]) THEN Append(InsertCand(SubSeq(s, 1, Len(s) - 1), x), s[Len(s)])
    ELSE Append(s, x)

RECURSIVE SortCands(_)
SortCands(s) ==
    IF s = <<>> THEN <<>>
    ELSE InsertCand(SortCands(SubSeq(s, 1, Len(s) - 1)), s[Len(s)])

\* CodeChunk(...): start_line + 1, end_line + 1
MkChunk(c, syms, lang) ==
    [chunk_type |-> c.chunk_type, name |-> c.name,
     start_line |-> c.start + 1, end_line |-> c.end + 1,
     parent_name |-> c.parent, language |-> lang, symbols |-> syms]

\* the matches of one pattern, in text order: 0-based lines i with P(i)
RECURSIVE MatchesFrom(_, _, _)
MatchesFrom(flags, i, n) ==
    IF i >= n THEN <<>>
    ELSE IF flags[i + 1] THEN <<i>> \o MatchesFrom(flags, i + 1, n)
    ELSE MatchesFrom(flags, i + 1, n)

----------------------------------------------------------------------------
(* Bracket-delimited chunkers: TypeScriptChunker and SwiftChunker *)

BlockWindow == 50

\* the loop of _find_block_end: -1 when the braces never balance
RECURSIVE BraceScan(_, _, _, _)
BraceScan(lines, i, brace_count, started) ==
    IF i >= Len(lines) THEN -1
    ELSE LET l == lines[i + 1]
             bc == brace_count + l.opens - l.closes
             st == started \/ l.opens > 0
         IN IF st /\ bc = 0 THEN i ELSE BraceScan(lines, i + 1, bc, st)

\* the cap without the clamp to the last line
NoBalanceEndUncapped(lines, start_line) == start_line + BlockWindow

NoBalanceEnd(lines, start_line) == Min(start_line + BlockWindow, Len(lines) - 1)

find_block_end(lines, start_line) ==
    LET r == BraceScan(lines, start_line, 0, FALSE)
    IN IF r # -1 THEN r ELSE NoBalanceEnd(lines, start_line)

\* the patterns with the two name-based ones in front
TSPatternsNamesFirst ==
    <<"component", "hook", "function", "arrow_function", "class", "interface",
      "export_default">>

TSPatterns ==
    <<"function", "arrow_function", "class", "interface", "component", "hook",
      "export_default">>

\* does the pattern match at the start of line l, with a non-empty group 1
TSMatch(pattern, l) ==
    CASE pattern = "function" -> l.kw = "function"
      [] pattern = "arrow_function" -> l.kw = "const"
      [] pattern = "class" -> l.kw = "class"
      [] pattern = "interface" -> l.kw = "interface"
      [] pattern = "component" -> l.kw \in {"const", "memo"} /\ IsComponentName(l.name)
      [] pattern = "hook" -> l.kw \in {"function", "const", "memo"} /\ IsHookName(l.name)
      [] pattern = "export_default" -> l.kw = "export_default" /\ l.name # None
      [] OTHER -> FALSE

SwiftPatterns ==
    <<"struct", "class", "function", "protocol", "extension", "enum", "property">>

SwiftKw(pattern) ==
    CASE pattern = "function" -> "func"
      [] pattern = "property" -> "var"
      [] OTHER -> pattern

\* the function and property patterns open with ^(?:\s*), the others with ^
SwiftMatch(pattern, l) ==
    /\ l.kw = SwiftKw(pattern)
    /\ pattern \in {"function", "property"} \/ l.indent = 0

\* ^(?:\s*) also eats the white-space-only lines above the declaration, so
\* match.start() lies on the first line of that run
RECURSIVE SwallowStart(_, _)
SwallowStart(lines, j) ==
    IF j > 0 /\ lines[j].kw = "blank" THEN SwallowStart(lines, j - 1) ELSE j

SwiftStart(pattern, lines, j) ==
    IF pattern \in {"function", "property"} THEN SwallowStart(lines, j) ELSE j

\* for chunk_type, pattern in PATTERNS.items(): for match in finditer(content)
RECURSIVE TSCandidates(_, _)
TSCandidates(lines, p) ==
    IF p > Len(TSPatterns) THEN <<>>
    ELSE LET ms == MatchesFrom([i \in 1..Len(lines) |-> TSMatch(TSPatterns[p], lines[i])],
                               0, Len(lines))
         IN [k \in 1..Len(ms) |->
                Cand(TSPatterns[p], lines[ms[k] + 1].name, ms[k],
                     find_block_end(lines, ms[k]), None)]
            \o TSCandidates(lines, p + 1)

RECURSIVE SwiftCandidates(_, _)
SwiftCandidates(lines, p) ==
    IF p > Len(SwiftPatterns) THEN <<>>
    ELSE LET pat == SwiftPatterns[p]
             ms == MatchesFrom([i \in 1..Len(lines) |-> SwiftMatch(pat, lines[i])],
                               0, Len(lines))
         IN [k \in 1..Len(ms) |->
                LET s == SwiftStart(pat, lines, ms[k])
                IN Cand(pat, lines[ms[k] + 1].name, s, find_block_end(lines, s), None)]
            \o SwiftCandidates(lines, p + 1)

\* _extract_symbols: every name matched by any pattern inside the span
TSLineSymbols(l) ==
    IF \E p \in 1..Len(TSPatterns) : TSMatch(TSPatterns[p], l) THEN {l.name} ELSE {}

SwiftLineSymbols(l) ==
    IF \E p \in 1..Len(SwiftPatterns) : SwiftMatch(SwiftPatterns[p], l) THEN {l.name} ELSE {}

\* the span is cut with lines[start_line:end_line + 1], which stops at the last line
ExtractSymbols(lineSyms, start, end) ==
    UNION {lineSyms[i + 1] : i \in start..Min(end, Len(lineSyms) - 1)}

\* the walk without the coverage test
BracketSkipNever(c, covered_lines) == FALSE

\* if start_line in covered_lines: continue
BracketSkip(c, covered_lines) == c.start \in covered_lines

\* for line in range(start_line, end_line + 1): covered_lines.add(line)
BracketCover(c, covered_lines) == covered_lines \cup (c.start..c.end)

RECURSIVE BracketWalk(_, _, _, _, _)
BracketWalk(cands, i, covered_lines, lineSyms, lang) ==
    IF i > Len(cands) THEN <<>>
    ELSE LET c == cands[i]
         IN IF BracketSkip(c, covered_lines)
            THEN BracketWalk(cands, i + 1, covered_lines, lineSyms, lang)
            ELSE <<MkChunk(c, ExtractSymbols(lineSyms, c.start, c.end), lang)>>
                 \o BracketWalk(cands, i + 1, BracketCover(c, covered_lines), lineSyms, lang)

TypeScriptChunk(lines) ==
    BracketWalk(SortCands(TSCandidates(lines, 1)), 1, {},
                [i \in 1..Len(lines) |-> TSLineSymbols(lines[i])], "typescript")

SwiftChunk(lines) ==
    BracketWalk(SortCands(SwiftCandidates(lines, 1)), 1, {},
                [i \in 1..Len(lines) |-> SwiftLineSymbols(lines[i])], "swift")

----------------------------------------------------------------------------
(* Indentation-delimited chunker: PythonChunker *)

\* ^class\s+(\w+), ^(?:@\w+.*\n)*def\s+(\w+)\s*\( and the async variant: the
\* keyword must stand in column 0
PyMatch(pattern, l) ==
    /\ l.indent = 0
    /\ l.kw = (CASE pattern = "function" -> "def"
                 [] pattern = "async_function" -> "async_def"
                 [] OTHER -> "class")

\* (?:@\w+.*\n)*: the decorator lines in column 0 right above belong to the match
RECURSIVE DecoStart(_, _)
DecoStart(lines, j) ==
    IF j > 0 /\ lines[j].kw = "deco" /\ lines[j].indent = 0
    THEN DecoStart(lines, j - 1) ELSE j

RECURSIVE PyEndScan(_, _, _)
PyEndScan(lines, i, base_indent) ==
    IF i >= Len(lines) THEN Len(lines) - 1
    ELSE LET l == lines[i + 1]
         IN IF l.kw \in {"blank", "comment"} THEN PyEndScan(lines, i + 1, base_indent)
            ELSE IF l.indent <= base_indent THEN i - 1
            ELSE PyEndScan(lines, i + 1, base_indent)

find_python_block_end(lines, start_line) ==
    IF start_line >= Len(lines) THEN start_line
    ELSE PyEndScan(lines, start_line + 1, lines[start_line + 1].indent)

\* start < func_line <= end and func_indent > class_indent
InsideClass(lines, func_line, c) ==
    /\ c.chunk_type = "class"
    /\ c.start < func_line /\ func_line <= c.end
    /\ lines[func_line + 1].indent > lines[c.start + 1].indent

find_parent_class(lines, func_line, found) ==
    IF \E k \in 1..Len(found) : InsideClass(lines, func_line, found[k])
    THEN LET k == CHOOSE k \in 1..Len(found) :
                    /\ InsideClass(lines, func_line, found[k])
                    /\ \A h \in 1..(k - 1) : ~InsideClass(lines, func_line, found[h])
         IN found[k].name
    ELSE None

PyClassCandidates(lines) ==
    LET ms == MatchesFrom([i \in 1..Len(lines) |-> PyMatch("class", lines[i])], 0, Len(lines))
    IN [k \in 1..Len(ms) |->
           Cand("class", lines[ms[k] + 1].name, ms[k],
                find_python_block_end(lines, ms[k]), None)]

\* one more function match appended to symbols_found
PyFuncCandidate(lines, pattern_name, j, symbols_found) ==
    LET start_line == DecoStart(lines, j)
        parent_class == find_parent_class(lines, start_line, symbols_found)
    IN Cand(IF parent_class # None THEN "method" ELSE "function",
            lines[j + 1].name, start_line,
            find_python_block_end(lines, start_line), parent_class)

RECURSIVE PyAddFuncs(_, _, _, _, _)
PyAddFuncs(lines, pattern_name, ms, k, symbols_found) ==
    IF k > Len(ms) THEN symbols_found
    ELSE PyAddFuncs(lines, pattern_name, ms, k + 1,
                    Append(symbols_found,
                           PyFuncCandidate(lines, pattern_name, ms[k], symbols_found)))

PyCandidates(lines) ==
    LET fs == MatchesFrom([i \in 1..Len(lines) |-> PyMatch("function", lines[i])],
                          0, Len(lines))
        as == MatchesFrom([i \in 1..Len(lines) |-> PyMatch("async_function", lines[i])],
                          0, Len(lines))
    IN PyAddFuncs(lines, "async_function", as, 1,
                  PyAddFuncs(lines, "function", fs, 1, PyClassCandidates(lines)))

PyLineSymbols(l) ==
    IF \E p \in {"function", "async_function", "class"} : PyMatch(p, l) THEN {l.name} ELSE {}

\* if start_line in covered_lines and chunk_type != "class": continue
PySkip(c, covered_lines) == c.start \in covered_lines /\ c.chunk_type # "class"

\* if chunk_type == "class": cover the span
PyCover(c, covered_lines) ==
    IF c.chunk_type = "class" THEN covered_lines \cup (c.start..c.end) ELSE covered_lines

RECURSIVE PyWalk(_, _, _, _)
PyWalk(cands, i, covered_lines, lineSyms) ==
    IF i > Len(cands) THEN <<>>
    ELSE LET c == cands[i]
         IN IF PySkip(c, covered_lines)
            THEN PyWalk(cands, i + 1, covered_lines, lineSyms)
            ELSE <<MkChunk(c, ExtractSymbols(lineSyms, c.start, c.end), "python")>>
                 \o PyWalk(cands, i + 1, PyCover(c, covered_lines), lineSyms)

PythonChunk(lines) ==
    PyWalk(SortCands(PyCandidates(lines)), 1, {},
           [i \in 1..Len(lines) |-> PyLineSymbols(lines[i])])

\* CHUNKERS / get_chunker
\* the registry without its Python entry
ChunkerExtsNoPython == {".ts", ".tsx", ".js", ".jsx", ".swift"}

ChunkerExts == {".ts", ".tsx", ".js", ".jsx", ".swift", ".py"}

ChunkFile(ext, lines) ==
    CASE ext \in {".ts", ".tsx", ".js", ".jsx"} -> TypeScriptChunk(lines)
      [] ext = ".swift" -> SwiftChunk(lines)
      [] ext = ".py" -> PythonChunk(lines)

\* content.split('\n') never returns an empty list: text.count('\n') + 1
count_lines(lines) == Len(lines)

----------------------------------------------------------------------------
(* The chunkers applied to every bounded text *)

TSLines ==
    { Line("function", nf, 0, 1, 0),          \* function f() {
      Line("function", nuseXy, 0, 1, 0),      \* function useXy() {
      Line("const", nFo, 0, 1, 0),            \* const Fo = () => {
      Line("memo", nFo, 0, 0, 0),             \* const Fo = React.memo(Inner)
      Line("export_default", ng, 0, 1, 1),    \* export default function g() {}
      Line("function", ng, 0, 0, 0),          \* function g()
      Line("none", None, 0, 0, 1),            \* }
      Line("none", None, 0, 0, 0) }           \* a statement or an empty line

SwiftLines ==
    { Line("struct", nA, 0, 1, 0),            \* struct A {
      Line("func", nf, 1, 1, 0),              \*   func f() {
      Line("func", ng, 0, 1, 1),              \* func g() {}
      Line("var", nx, 1, 0, 0),               \*   var x: Int
      Line("none", None, 0, 0, 1),            \* }
      Line("blank", None, 0, 0, 0) }          \* white space only

PyLines ==
    { Line("class", nA, 0, 0, 0),             \* class A:
      Line("def", nf, 0, 0, 0),               \* def f():
      Line("def", nm, 1, 0, 0),               \*     def m(self):
      Line("async_def", ng, 0, 0, 0),         \* async def g():
      Line("deco", None, 0, 0, 0),            \* @decorator
      Line("stmt", None, 1, 0, 0),            \*     pass
      Line("stmt", None, 0, 0, 0),            \* x = 1
      Line("blank", None, 0, 0, 0) }          \* empty line

Texts(alphabet) == UNION {[1..k -> alphabet] : k \in 1..MaxLines}

\* a declaration that opens a brace, n lines without braces, and then the
\* closing brace or the end of the file
LongBlock(head, fill, n, close) == <<head>> \o [k \in 1..n |-> fill] \o close

\* blocks whose closing brace, when there is one, lies at the edge of the
\* window of _find_block_end, one line before it and one line after it
LongInputs ==
    {[ext |-> ".ts",
      lines |-> LongBlock(Line("function", nf, 0, 1, 0), Line("none", None, 0, 0, 0), n, c)] :
        n \in (BlockWindow - 1)..(BlockWindow + 1),
        c \in {<<>>, <<Line("none", None, 0, 0, 1)>>}}
    \cup {[ext |-> ".swift",
            lines |-> LongBlock(Line("struct", nA, 0, 1, 0), Line("blank", None, 0, 0, 0), n, c)] :
              n \in (BlockWindow - 1)..(BlockWindow + 1),
              c \in {<<>>, <<Line("none", None, 0, 0, 1)>>}}

ChunkInputs ==
    {[ext |-> ".ts", lines |-> t] : t \in Texts(TSLines)}
    \cup {[ext |-> ".swift", lines |-> t] : t \in Texts(SwiftLines)}
    \cup {[ext |-> ".py", lines |-> t] : t \in Texts(PyLines)}
    \cup LongInputs

----------------------------------------------------------------------------
(* The source trees *)

Projects == {"A", "B"}

pC == "components/C.tsx"
pM == "src/m.py"
pX == "build/x.py"
pR == "src/r.md"

\* the order in which one glob call lists the files
PathOrder == <<pX, pC, pM, pR>>

nC == <<"C">>

\* what the program looks at in a path: its directories, its suffix, its stem
\* and which of the words of the exclusion lists occur in it
PathInfo(path) ==
    CASE path = pC -> [dirs |-> <<"components">>, ext |-> ".tsx", stem |-> nC, words |-> {}]
      [] path = pM -> [dirs |-> <<"src">>, ext |-> ".py", stem |-> nm, words |-> {}]
      [] path = pX -> [dirs |-> <<"build">>, ext |-> ".py", stem |-> nx, words |-> {"build"}]
      [] path = pR -> [dirs |-> <<"src">>, ext |-> ".md", stem |-> nr, words |-> {}]

py1 ==
    << Line("class", nA, 0, 0, 0), Line("def", nm, 1, 0, 0),
       Line("def", nf, 0, 0, 0), Line("stmt", None, 1, 0, 0) >>

py2 == << Line("def", nf, 0, 0, 0), Line("stmt", None, 1, 0, 0) >>

tsx1 ==
    << Line("const", nFo, 0, 1, 0), Line("function", nf, 0, 1, 0),
       Line("none", None, 0, 0, 1), Line("none", None, 0, 0, 1) >>

\* a Python file and a TypeScript file in which no pattern matches, and a
\* file that is no source file
py0 == << Line("stmt", None, 0, 0, 0) >>

ts0 == << Line("none", None, 0, 0, 0) >>

md1 == << Line("none", None, 0, 0, 0) >>

Text(id) ==
    CASE id = "py1" -> py1
      [] id = "py2" -> py2
      [] id = "tsx1" -> tsx1
      [] id = "py0" -> py0
      [] id = "ts0" -> ts0
      [] id = "md1" -> md1

\* the states a file of a project can be in
FileStates(P, path) ==
    CASE P = "A" /\ path = pM -> {"absent", "unreadable", "py1", "py2"}
      [] P = "A" /\ path = pC -> {"unreadable", "tsx1"}
      [] P = "A" /\ path = pX -> {"py2"}
      [] P = "B" /\ path = pM -> {"py2"}
      [] OTHER -> {"absent"}

Paths == {pC, pM, pX, pR}

InitTree ==
    [P \in Projects |-> [path \in Paths |->
        CASE P = "A" /\ path = pM -> "py1"
          [] P = "A" /\ path = pC -> "tsx1"
          [] P = "A" /\ path = pX -> "py2"
          [] P = "B" /\ path = pM -> "py2"
          [] OTHER -> "absent"]]

IsPrefix(a, b) == Len(a) <= Len(b) /\ SubSeq(b, 1, Len(a)) = a

Pat(dirs, ext, tag) == [dirs |-> dirs, ext |-> ext, tag |-> tag]

FILE_PATTERNS ==
    << Pat(<<"src">>, ".ts", "typescript"), Pat(<<"src">>, ".tsx", "typescript"),
       Pat(<<"src">>, ".js", "javascript"), Pat(<<"src">>, ".jsx", "javascript"),
       Pat(<<"app">>, ".ts", "typescript"), Pat(<<"app">>, ".tsx", "typescript"),
       Pat(<<"components">>, ".tsx", "typescript"), Pat(<<"lib">>, ".ts", "typescript"),
       Pat(<<"hooks">>, ".ts", "typescript"), Pat(<<"utils">>, ".ts", "typescript"),
       Pat(<<>>, ".swift", "swift"),
       Pat(<<>>, ".py", "python"), Pat(<<"src">>, ".py", "python") >>

COMPONENT_PATTERNS ==
    << Pat(<<"src", "components">>, ".tsx", "component"),
       Pat(<<"src", "pages">>, ".tsx", "page"),
       Pat(<<"src", "app">>, ".tsx", "page"),
       Pat(<<"components">>, ".tsx", "component") >>

\* glob(str(project_root / pattern), recursive=True) over the files that exist
RECURSIVE GlobFrom(_, _, _)
GlobFrom(files, pat, k) ==
    IF k > Len(PathOrder) THEN <<>>
    ELSE LET path == PathOrder[k]
             hit == /\ files[path] # "absent"
                    /\ IsPrefix(pat.dirs, PathInfo(path).dirs)
                    /\ PathInfo(path).ext = pat.ext
         IN (IF hit THEN <<[path |-> path, tag |-> pat.tag]>> ELSE <<>>)
            \o GlobFrom(files, pat, k + 1)

RECURSIVE GlobAll(_, _, _)
GlobAll(files, pats, p) ==
    IF p > Len(pats) THEN <<>>
    ELSE GlobFrom(files, pats[p], 1) \o GlobAll(files, pats, p + 1)

ChunkExcluded == {"node_modules", ".git", "__pycache__", "dist", "build"}
ComponentExcluded == {"node_modules", ".git"}

\* if file_path in processed_files: continue / if any(ex in file_path ...): continue
RECURSIVE DropSeen(_, _)
DropSeen(hits, processed_files) ==
    IF hits = <<>> THEN <<>>
    ELSE LET h == Head(hits)
         IN IF h.path \in processed_files \/ PathInfo(h.path).words \cap ChunkExcluded # {}
            THEN DropSeen(Tail(hits), processed_files)
            ELSE <<h>> \o DropSeen(Tail(hits), processed_files \cup {h.path})

FilesToProcess(files) == DropSeen(GlobAll(files, FILE_PATTERNS, 1), {})

ComponentFiles(files) ==
    SelectSeq(GlobAll(files, COMPONENT_PATTERNS, 1),
              LAMBDA h : PathInfo(h.path).words \cap ComponentExcluded = {})

----------------------------------------------------------------------------
(* Embeddings *)

EMBEDDING_MODEL == "nomic-embed-text"

\* the provider: a fixed map from the text sent (told apart by its leading
\* symbol name) to a vector
ProviderVector(name) ==
    CASE name = nf -> <<3, 4>>
      [] name = nA -> <<1, 0>>
      [] OTHER -> <<0, 1>>

\* struct.pack(f'{len(embedding)}f', *embedding): 4 bytes per float
PackF32(v) == [nbytes |-> 4 * Len(v), floats |-> v]

blob_to_vector(blob) == SubSeq(blob.floats, 1, blob.nbytes \div 4)

\* get_embedding: the packed vector, or None when the request fails (the
\* provider is down, times out or answers with an error)
EmbeddingOutcomes(up, name) ==
    IF up THEN {PackF32(ProviderVector(name))} ELSE {None}

----------------------------------------------------------------------------
(* The store and the sync run *)

Stats0 == [components |-> 0, code_chunks |-> 0, symbols |-> 0, files |-> 0]

EmptyTx == [code_chunks |-> <<>>, symbols |-> <<>>, components |-> <<>>]

Seq0 == [code_chunks |-> 0, symbols |-> 0, components |-> 0, sync_events |-> 0]

NoRun ==
    [project |-> "none", requested |-> FALSE, generate_embeddings |-> FALSE,
     stats |-> Stats0, pending |-> <<>>, tx |-> EmptyTx, seq |-> Seq0,
     files |-> <<>>, base |-> Seq0, probe |-> FALSE]

NoRet == [project |-> "none", status |-> "none", stats |-> Stats0,
          files |-> <<>>, base |-> Seq0, requested |-> FALSE, probe |-> FALSE]

NoWeights == [semantic |-> 0, symbol |-> 0, fulltext |-> 0]

NoSearch == [kind |-> "none", scope |-> "none", query |-> None, limit |-> 0,
             out |-> <<>>, up |-> FALSE, raised |-> FALSE, weights |-> NoWeights]

OfProject(rows, P) == SelectSeq(rows, LAMBDA r : r.project_path = P)

\* a DELETE without its WHERE clause
DeleteEverything(rows, P) == <<>>

\* a sync that does not clear the rows of its project
DeleteNothing(rows, P) == rows

\* DELETE FROM ... WHERE project_path = ?
DeleteProject(rows, P) == SelectSeq(rows, LAMBDA r : r.project_path # P)

\* main without the probe
MainEmbeddingsKeep(requested, available) == requested

\* main: if args.embeddings and not check_ollama_available(): args.embeddings = False
MainEmbeddings(requested, available) == requested /\ available

ChunkRow(id, P, rel_path, i, chunk, content, embedding) ==
    [id |-> id, project_path |-> P, file_path |-> rel_path, chunk_index |-> i,
     content |-> content, language |-> chunk.language,
     chunk_type |-> chunk.chunk_type, name |-> chunk.name,
     parent_name |-> chunk.parent_name,
     start_line |-> chunk.start_line, end_line |-> chunk.end_line,
     embedding |-> embedding,
     embedding_model |-> IF embedding # None THEN EMBEDDING_MODEL ELSE None]

SymbolRow(id, P, rel_path, symbol_name, chunk, chunk_id) ==
    [id |-> id, project_path |-> P, file_path |-> rel_path,
     symbol_name |-> symbol_name, symbol_type |-> chunk.chunk_type,
     parent_symbol |-> chunk.parent_name, language |-> chunk.language,
     start_line |-> chunk.start_line, end_line |-> chunk.end_line,
     chunk_id |-> chunk_id]

ComponentRow(id, P, name, comp_type, rel_path, embedding) ==
    [id |-> id, project_path |-> P, name |-> name, type |-> comp_type,
     file_path |-> rel_path, embedding |-> embedding,
     embedding_model |-> IF embedding # None THEN EMBEDDING_MODEL ELSE None]

\* the chunk insert without stats["code_chunks"] += 1
AddChunkMiscount(r, rel_path, i, chunk, content, embedding, order) ==
    LET chunk_id == r.seq.code_chunks + 1
        row == ChunkRow(chunk_id, r.project, rel_path, i, chunk, content, embedding)
        syms == [k \in 1..Len(order) |->
                    SymbolRow(r.seq.symbols + k, r.project, rel_path, order[k],
                              chunk, chunk_id)]
    IN [r EXCEPT !.tx.code_chunks = Append(@, row),
                 !.tx.symbols = @ \o syms,
                 !.seq.code_chunks = chunk_id,
                 !.seq.symbols = @ + Len(order),
                 !.stats.symbols = @ + Len(order)]

\* one pass of "for i, chunk in enumerate(chunks)": the chunk row, then one
\* symbol row per name of chunk.symbols, in the order the list has them
AddChunk(r, rel_path, i, chunk, content, embedding, order) ==
    LET chunk_id == r.seq.code_chunks + 1
        row == ChunkRow(chunk_id, r.project, rel_path, i, chunk, content, embedding)
        syms == [k \in 1..Len(order) |->
                    SymbolRow(r.seq.symbols + k, r.project, rel_path, order[k],
                              chunk, chunk_id)]
    IN [r EXCEPT !.tx.code_chunks = Append(@, row),
                 !.tx.symbols = @ \o syms,
                 !.seq.code_chunks = chunk_id,
                 !.seq.symbols = @ + Len(order),
                 !.stats.code_chunks = @ + 1,
                 !.stats.symbols = @ + Len(order)]

RECURSIVE AddChunks(_, _, _, _, _, _, _)
AddChunks(r, rel_path, lines, chunks, embs, orders, i) ==
    IF i > Len(chunks) THEN r
    ELSE AddChunks(AddChunk(r, rel_path, i - 1, chunks[i],
                            SubSeq(lines, chunks[i].start_line, chunks[i].end_line),
                            embs[i], orders[i]),
                   rel_path, lines, chunks, embs, orders, i + 1)

\* the branch for a file without a chunker: one chunk of type 'file'
AddFallback(r, hit, lines, embedding) ==
    LET row == [id |-> r.seq.code_chunks + 1, project_path |-> r.project,
                file_path |-> hit.path, chunk_index |-> 0, content |-> lines,
                language |-> hit.tag, chunk_type |-> "file",
                name |-> PathInfo(hit.path).stem, parent_name |-> None,
                start_line |-> 1, end_line |-> count_lines(lines),
                embedding |-> embedding,
                embedding_model |-> IF embedding # None THEN EMBEDDING_MODEL ELSE None]
    IN [r EXCEPT !.tx.code_chunks = Append(@, row),
                 !.seq.code_chunks = @ + 1,
                 !.stats.code_chunks = @ + 1]

\* stats["files"] += 1
CountFile(r) == [r EXCEPT !.stats.files = @ + 1]

Perms(S) ==
    {o \in [1..Cardinality(S) -> S] : \A i, j \in 1..Cardinality(S) : i # j => o[i] # o[j]}

ChunksOf(hit, lines) ==
    IF PathInfo(hit.path).ext \in ChunkerExts
    THEN ChunkFile(PathInfo(hit.path).ext, lines) ELSE <<>>

\* the embedding stored with a chunk: None unless embeddings are generated
ChunkEmbeddings(r, up, name) ==
    IF r.generate_embeddings THEN EmbeddingOutcomes(up, name) ELSE {None}

----------------------------------------------------------------------------
(* Search primitives.  Scores are held in thousandths. *)

ToLower(c) ==
    CASE c = "A" -> "a"
      [] c = "B" -> "b"
      [] c = "C" -> "c"
      [] c = "F" -> "f"
      [] c = "X" -> "x"
      [] OTHER -> c

\* LOWER(x)
SqlLower(n) == [k \in 1..Len(n) |-> ToLower(n[k])]

\* x LIKE pattern: '%' is any run of characters, '_' any one character, and
\* letters compare without regard to case (SQLite's default for LIKE)
RECURSIVE SqlLike(_, _)
SqlLike(n, pattern) ==
    IF pattern = <<>> THEN n = <<>>
    ELSE IF Head(pattern) = "%"
         THEN SqlLike(n, Tail(pattern)) \/ (n # <<>> /\ SqlLike(Tail(n), pattern))
         ELSE /\ n # <<>>
              /\ Head(pattern) = "_" \/ ToLower(Head(pattern)) = ToLower(Head(n))
              /\ SqlLike(Tail(n), Tail(pattern))

\* WHERE s.symbol_name = ?
ExactTest(name, query) == name = query

\* WHERE s.symbol_name LIKE 'query%' AND s.symbol_name != query
PrefixTest(name, query) ==
    SqlLike(name, query \o <<"%">>) /\ name # query

\* WHERE s.symbol_name LIKE '%query%' AND s.symbol_name NOT LIKE 'query%'
ContainsTest(name, query) ==
    SqlLike(name, <<"%">> \o query \o <<"%">>) /\ ~SqlLike(name, query \o <<"%">>)

\* WHERE LOWER(s.symbol_name) LIKE LOWER('%query%')
\*   AND s.symbol_name NOT LIKE 'query%' AND s.symbol_name NOT LIKE '%query%'
CaseInsensitiveTest(name, query) ==
    /\ SqlLike(SqlLower(name), SqlLower(<<"%">> \o query \o <<"%">>))
    /\ ~SqlLike(name, query \o <<"%">>)
    /\ ~SqlLike(name, <<"%">> \o query \o <<"%">>)

Take(rows, n) == SubSeq(rows, 1, Min(n, Len(rows)))

NoLine == -1

SymbolHit(r, score, match_type) ==
    [type |-> "symbol", name |-> r.symbol_name, kind |-> r.symbol_type,
     file_path |-> r.file_path, line |-> r.start_line, parent |-> r.parent_symbol,
     score |-> score, match_type |-> match_type,
     src |-> [table |-> "symbols", id |-> r.id, project_path |-> r.project_path]]

SymbolHits(rows, score, match_type) ==
    [k \in 1..Len(rows) |-> SymbolHit(rows[k], score, match_type)]

\* sorted(results, key=lambda x: -x["score"]): stable
RECURSIVE InsertByScore(_, _)
InsertByScore(s, x) ==
    IF s = <<>> THEN <<x>>
    ELSE IF x.score > s[Len(s)].score
         THEN Append(InsertByScore(SubSeq(s, 1, Len(s) - 1), x), s[Len(s)])
         ELSE Append(s, x)

RECURSIVE SortByScore(_)
SortByScore(s) ==
    IF s = <<>> THEN <<>>
    ELSE InsertByScore(SortByScore(SubSeq(s, 1, Len(s) - 1)), s[Len(s)])

SymbolKey(r) == <<r.name, r.file_path, r.line>>

\* seen = set(); keep the first result of every (name, file_path, line)
RECURSIVE DedupeFrom(_, _, _)
DedupeFrom(results, k, seen) ==
    IF k > Len(results) THEN <<>>
    ELSE IF SymbolKey(results[k]) \in seen THEN DedupeFrom(results, k + 1, seen)
    ELSE <<results[k]>> \o DedupeFrom(results, k + 1, seen \cup {SymbolKey(results[k])})

\* no deduplication
DedupeNone(results) == results

Dedupe(results) == DedupeFrom(results, 1, {})

\* rows of one tier: LIMIT limit - len(results), skipped when results is full
Tier(results, rows, limit, score, match_type) ==
    IF Len(results) < limit
    THEN results \o SymbolHits(Take(rows, limit - Len(results)), score, match_type)
    ELSE results

symbol_search(rows, query, limit) ==
    LET exact == SymbolHits(Take(SelectSeq(rows,
                     LAMBDA r : ExactTest(r.symbol_name, query)), limit), 1000, "exact")
        prefix == Tier(exact, SelectSeq(rows,
                     LAMBDA r : PrefixTest(r.symbol_name, query)), limit, 800, "prefix")
        contains == Tier(prefix, SelectSeq(rows,
                     LAMBDA r : ContainsTest(r.symbol_name, query)), limit, 500, "contains")
        results == Tier(contains, SelectSeq(rows,
                     LAMBDA r : CaseInsensitiveTest(r.symbol_name, query)), limit, 400,
                     "case_insensitive")
    IN Take(Dedupe(SortByScore(results)), limit)

SumTo(f, n) ==
    LET S[k \in 0..n] == IF k = 0 THEN 0 ELSE S[k - 1] + f[k]
    IN S[n]

\* sum(x * y for x, y in zip(a, b))
Dot(a, b) == SumTo([k \in 1..Min(Len(a), Len(b)) |-> a[k] * b[k]], Min(Len(a), Len(b)))

\* math.sqrt, exact on the vectors of the model (their norms are integers)
ISqrt(n) == CHOOSE k \in 0..n : k * k <= n /\ n < (k + 1) * (k + 1)

\* cosine_similarity, in thousandths
cosine_similarity(a, b) ==
    LET norm_a == ISqrt(Dot(a, a))
        norm_b == ISqrt(Dot(b, b))
    IN IF norm_a = 0 \/ norm_b = 0 THEN 0
       ELSE (Dot(a, b) * 1000) \div (norm_a * norm_b)

ComponentVectorHit(r, query_vec) ==
    [type |-> "component", name |-> r.name, kind |-> r.type,
     file_path |-> r.file_path, line |-> NoLine, parent |-> None,
     score |-> cosine_similarity(query_vec, blob_to_vector(r.embedding)),
     match_type |-> "semantic",
     src |-> [table |-> "components", id |-> r.id, project_path |-> r.project_path]]

\* the result of a chunk has no "name" and no "line" key
ChunkVectorHit(r, query_vec) ==
    [type |-> "code_chunk", name |-> None, kind |-> r.chunk_type,
     file_path |-> r.file_path, line |-> NoLine, parent |-> None,
     score |-> cosine_similarity(query_vec, blob_to_vector(r.embedding)),
     match_type |-> "semantic",
     src |-> [table |-> "code_chunks", id |-> r.id, project_path |-> r.project_path]]

\* results.sort(key=lambda x: x["score"], reverse=True) keeps ties in order
vector_search(available, query_embedding, comps, chunks, limit) ==
    IF ~available \/ query_embedding = None THEN <<>>
    ELSE LET query_vec == blob_to_vector(query_embedding)
             cs == SelectSeq(comps, LAMBDA r : r.embedding # None)
             ks == SelectSeq(chunks, LAMBDA r : r.embedding # None)
             results == [k \in 1..Len(cs) |-> ComponentVectorHit(cs[k], query_vec)]
                        \o [k \in 1..Len(ks) |-> ChunkVectorHit(ks[k], query_vec)]
         IN Take(SortByScore(results), limit)

----------------------------------------------------------------------------
(* Text as characters: what LIKE and the full-text tokenizer see *)

Spaces(n) == [k \in 1..n |-> " "]

\* the characters of one line of source text
LineChars(l) ==
    Spaces(l.indent) \o
    CASE l.kw = "class" -> <<"c", "l", "a", "s", "s", " ">> \o l.name \o <<":">>
      [] l.kw = "def" -> <<"d", "e", "f", " ">> \o l.name \o <<"(", ")", ":">>
      [] l.kw = "async_def" ->
            <<"a", "s", "y", "n", "c", " ", "d", "e", "f", " ">> \o l.name \o <<"(", ")", ":">>
      [] l.kw = "function" ->
            <<"f", "u", "n", "c", "t", "i", "o", "n", " ">> \o l.name \o <<"(", ")", " ", "{">>
      [] l.kw = "const" ->
            <<"c", "o", "n", "s", "t", " ">> \o l.name \o <<" ", "=", " ", "(", ")", " ", "=", ">", " ", "{">>
      [] l.kw = "stmt" -> <<"p", "a", "s", "s">>
      [] OTHER -> [k \in 1..l.closes |-> "}"]

\* '\n'.join(chunk_lines)
RECURSIVE ContentChars(_)
ContentChars(content) ==
    IF content = <<>> THEN <<>>
    ELSE IF Len(content) = 1 THEN LineChars(content[1])
    ELSE LineChars(content[1]) \o <<"\n">> \o ContentChars(Tail(content))

PathChars(path) ==
    CASE path = pC -> <<"c", "o", "m", "p", "o", "n", "e", "n", "t", "s", "/", "C", ".", "t", "s", "x">>
      [] path = pM -> <<"s", "r", "c", "/", "m", ".", "p", "y">>
      [] path = pX -> <<"b", "u", "i", "l", "d", "/", "x", ".", "p", "y">>

TypeChars(t) ==
    CASE t = "component" -> <<"c", "o", "m", "p", "o", "n", "e", "n", "t">>
      [] t = "page" -> <<"p", "a", "g", "e">>

Separators == {" ", "\n", ":", "(", ")", "{", "}", "=", ">", "/", "."}

\* the unicode61 tokenizer: maximal runs of letters and digits, folded to
\* lower case
RECURSIVE TokensFrom(_, _)
TokensFrom(chars, word) ==
    IF chars = <<>> THEN (IF word = <<>> THEN {} ELSE {word})
    ELSE IF Head(chars) \in Separators
         THEN (IF word = <<>> THEN {} ELSE {word}) \cup TokensFrom(Tail(chars), <<>>)
         ELSE TokensFrom(Tail(chars), Append(word, ToLower(Head(chars))))

Tokens(chars) == TokensFrom(chars, <<>>)

\* code_chunks_fts MATCH ?: a one-word query matches a row that holds the
\* word in column content, file_path or name.  (Column chunk_type holds the
\* words function, class, arrow, component, hook, ...; no query of the
\* model is one of them.)
FtsMatch(r, query) ==
    SqlLower(query) \in Tokens(ContentChars(r.content)) \cup Tokens(PathChars(r.file_path))
                           \cup Tokens(r.name)

\* WHERE content LIKE ? OR name LIKE ?
LikeChunk(r, query) ==
    \/ SqlLike(ContentChars(r.content), <<"%">> \o query \o <<"%">>)
    \/ SqlLike(r.name, <<"%">> \o query \o <<"%">>)

\* WHERE name LIKE ? OR file_path LIKE ? OR type LIKE ?
LikeComponent(r, query) ==
    \/ SqlLike(r.name, <<"%">> \o query \o <<"%">>)
    \/ SqlLike(PathChars(r.file_path), <<"%">> \o query \o <<"%">>)
    \/ SqlLike(TypeChars(r.type), <<"%">> \o query \o <<"%">>)

TextChunkHit(r, score, match_type) ==
    [type |-> "code_chunk", name |-> r.name, kind |-> r.chunk_type,
     file_path |-> r.file_path, line |-> r.start_line, parent |-> None,
     score |-> score, match_type |-> match_type,
     src |-> [table |-> "code_chunks", id |-> r.id, project_path |-> r.project_path]]

\* the result of a component has no "line" key
TextComponentHit(r) ==
    [type |-> "component", name |-> r.name, kind |-> r.type,
     file_path |-> r.file_path, line |-> NoLine, parent |-> None,
     score |-> 800, match_type |-> "component",
     src |-> [table |-> "components", id |-> r.id, project_path |-> r.project_path]]

\* the rows of the LIKE fallback, each appended unless a result collected so
\* far has its file_path and line
RECURSIVE AddLikeRows(_, _, _)
AddLikeRows(results, rows, k) ==
    IF k > Len(rows) THEN results
    ELSE IF \E i \in 1..Len(results) :
               /\ results[i].file_path = rows[k].file_path
               /\ results[i].line = rows[k].start_line
         THEN AddLikeRows(results, rows, k + 1)
         ELSE AddLikeRows(Append(results, TextChunkHit(rows[k], 600, "like")), rows, k + 1)

\* text_search: index hits, the LIKE fallback while fewer than limit
\* results, then the components; the list is returned as collected
text_search(index, chunks, comps, query, limit) ==
    LET hits == SelectSeq(chunks, LAMBDA c :
                    \E k \in 1..Len(index) : index[k].id = c.id /\ FtsMatch(index[k], query))
        fts_results == [k \in 1..Min(limit, Len(hits)) |-> TextChunkHit(hits[k], 1000, "fts")]
        like_rows == Take(SelectSeq(chunks, LAMBDA c : LikeChunk(c, query)),
                          limit - Len(fts_results))
        chunk_results == IF Len(fts_results) < limit
                         THEN AddLikeRows(fts_results, like_rows, 1) ELSE fts_results
        comp_rows == Take(SelectSeq(comps, LAMBDA c : LikeComponent(c, query)), limit)
    IN chunk_results \o [k \in 1..Len(comp_rows) |-> TextComponentHit(comp_rows[k])]

----------------------------------------------------------------------------
(* hybrid_search.  Weights are held in hundredths. *)

SEARCH_WEIGHTS == [semantic |-> 40, symbol |-> 35, fulltext |-> 25]

Signals == {"semantic", "symbol", "fulltext"}

\* key = f"{r['file_path']}:{r.get('line', 0)}"
HybridKey(r) == <<r.file_path, IF r.line = NoLine THEN 0 ELSE r.line>>

NewEntry(r) ==
    [key |-> HybridKey(r), type |-> r.type, name |-> r.name, file_path |-> r.file_path,
     line |-> r.line, chunk_type |-> r.kind,
     scores |-> [semantic |-> 0, symbol |-> 0, fulltext |-> 0],
     match_types |-> <<>>, src |-> r.src]

\* all_results[key]["scores"][signal] = r["score"]: the assignment is made for
\* every result, also when an earlier result of the signal had the key
Record(entry, signal, r) ==
    [entry EXCEPT !.scores[signal] = r.score,
                  !.match_types = Append(@, <<signal, r.match_type>>)]

RECURSIVE Merge(_, _, _, _)
Merge(all_results, results, signal, k) ==
    IF k > Len(results) THEN all_results
    ELSE LET r == results[k]
             at == {i \in 1..Len(all_results) : all_results[i].key = HybridKey(r)}
             next == IF at = {}
                     THEN Append(all_results, Record(NewEntry(r), signal, r))
                     ELSE [all_results EXCEPT ![CHOOSE i \in at : TRUE] = Record(@, signal, r)]
         IN Merge(next, results, signal, k + 1)

\* sum(1 for s in scores.values() if s > 0)
MatchCount(scores) == Cardinality({g \in Signals : scores[g] > 0})

\* the weighted sum, in units of 10^-5
Weighted(scores, weights) ==
    scores.semantic * weights.semantic + scores.symbol * weights.symbol
        + scores.fulltext * weights.fulltext

\* the weighted sum without the boost
Unboosted(scores, weights) == Weighted(scores, weights) * 10

\* the weighted sum times the boost 1 + 0.1 * (match_count - 1), in units of
\* 10^-6
Boosted(scores, weights) ==
    Weighted(scores, weights)
        * (IF MatchCount(scores) > 1 THEN 10 + (MatchCount(scores) - 1) ELSE 10)

\* round(final_score, 3) of a value given in units of 10^-6, in thousandths.
\* A value halfway between two thousandths has no exact binary float, so the
\* float that is rounded lies just above or just below it: tie says which.
Round3(v, tie) ==
    IF v % 1000 < 500 THEN v \div 1000
    ELSE IF v % 1000 > 500 THEN v \div 1000 + 1
    ELSE v \div 1000 + tie

FinalResult(entry, weights, tie) ==
    [type |-> entry.type, name |-> entry.name, file_path |-> entry.file_path,
     line |-> entry.line, chunk_type |-> entry.chunk_type,
     score |-> Round3(Boosted(entry.scores, weights), tie),
     breakdown |-> entry.scores, match_types |-> entry.match_types,
     key |-> entry.key, src |-> entry.src]

\* hybrid_search on an initialised store; an exception of vector_search is
\* swallowed, and semantic is then the empty list
hybrid_search(index, syms, chunks, comps, available, query_embedding, query, limit, weights, tie) ==
    LET symbol_results == symbol_search(syms, query, limit * 2)
        text_results == text_search(index, chunks, comps, query, limit * 2)
        semantic_results == vector_search(available, query_embedding, comps, chunks,
                                          limit * 2)
        all_results == Merge(Merge(Merge(<<>>, symbol_results, "symbol", 1),
                                   text_results, "fulltext", 1),
                             semantic_results, "semantic", 1)
        final_results == [k \in 1..Len(all_results) |->
                             FinalResult(all_results[k], weights, tie)]
    IN Take(SortByScore(final_results), limit)

\* the rows of the file_index table: the schema creates it, and no statement
\* of the program inserts into it, updates it or deletes from it (main only
\* counts its rows), so that it is empty in every state
file_index == <<>>

NoRec == [done |-> FALSE, stats |-> Stats0, nchunks |-> 0, nsymbols |-> 0]

InitStore ==
    /\ tree = InitTree
    /\ code_chunks = <<>> /\ symbols = <<>> /\ components = <<>>
    /\ sync_events = <<>>
    /\ fts = EmptyTx
    /\ seqno = Seq0
    /\ schema = FALSE
    /\ pc = "idle" /\ run = NoRun /\ ret = NoRet
    /\ hist = [P \in Projects |-> [last |-> NoRec, prev |-> NoRec, same |-> FALSE]]
    /\ dirty = [P \in Projects |-> FALSE]
    /\ nsyncs = 0
    /\ search = NoSearch

\* Every step of the environment or of a sync run forgets the last search:
\* search holds a result only in the state right after the call.

\* the environment: a file is written, removed or made unreadable.  The tree
\* is taken to be stable while a sync run walks it.
EditTree(P, path, st) ==
    /\ pc = "idle"
    /\ st \in FileStates(P, path) /\ st # tree[P][path]
    /\ tree' = [tree EXCEPT ![P][path] = st]
    /\ dirty' = [dirty EXCEPT ![P] = TRUE]
    /\ UNCHANGED <<chunkVars, storeVars, ollama, pc, run, ret, hist, nsyncs>>
    /\ search' = NoSearch

\* the environment: the embedding provider goes down or comes up
ProviderFlip ==
    /\ ollama' = ~ollama
    /\ UNCHANGED <<chunkVars, storeVars, syncVars, tree>>
    /\ search' = NoSearch

\* main, command "sync": ensure_schema, the availability probe, then the
\* start of sync_from_project_context up to the commit of the two DELETEs
SyncBegin(P, embeddings) ==
    /\ pc = "idle" /\ nsyncs < MaxSyncs
    /\ nsyncs' = nsyncs + 1
    /\ run' = [project |-> P, requested |-> embeddings,
               generate_embeddings |-> MainEmbeddings(embeddings, ollama),
               stats |-> Stats0, pending |-> FilesToProcess(tree[P]),
               tx |-> EmptyTx, seq |-> seqno, files |-> tree[P], base |-> seqno,
               probe |-> ollama]
    /\ code_chunks' = DeleteProject(code_chunks, P)
    /\ symbols' = DeleteProject(symbols, P)
    /\ schema' = TRUE
    /\ pc' = "files"
    /\ ret' = [NoRet EXCEPT !.project = P, !.status = "running"]
    /\ UNCHANGED <<chunkVars, tree, ollama, components, sync_events, fts, seqno,
                   hist, dirty>>
    /\ search' = NoSearch

\* a skip that counts the unreadable file
SkipFileCounted(r) == [r EXCEPT !.pending = Tail(@), !.stats.files = @ + 1]

\* except Exception: print(Skip ...); continue
SkipFile(r) == [r EXCEPT !.pending = Tail(@)]

\* Path(file_path).read_text raises
SyncSkipUnreadable ==
    /\ pc = "files" /\ run.pending # <<>>
    /\ tree[run.project][Head(run.pending).path] = "unreadable"
    /\ run' = SkipFile(run)
    /\ UNCHANGED <<chunkVars, storeVars, tree, ollama, pc, ret, hist, dirty, nsyncs>>
    /\ search' = NoSearch

\* a file step that commits: SyncFile followed by con.commit()
SyncFileCommitting ==
    /\ pc = "files" /\ run.pending # <<>>
    /\ tree[run.project][Head(run.pending).path] # "unreadable"
    /\ LET hit == Head(run.pending)
           lines == Text(tree[run.project][hit.path])
           chunks == ChunksOf(hit, lines)
           n == Len(chunks)
           r == CountFile([run EXCEPT !.pending = Tail(@)])
       IN \E orders \in [1..n -> UNION {Perms(chunks[i].symbols) : i \in 1..n}] :
             /\ \A i \in 1..n : orders[i] \in Perms(chunks[i].symbols)
             /\ LET q == AddChunks(r, hit.path, lines, chunks, [i \in 1..n |-> None],
                                   orders, 1)
                IN /\ code_chunks' = code_chunks \o q.tx.code_chunks
                   /\ symbols' = symbols \o q.tx.symbols
                   /\ seqno' = q.seq
                   /\ run' = [q EXCEPT !.tx = EmptyTx]
    /\ UNCHANGED <<chunkVars, components, sync_events, fts, schema, tree, ollama, pc,
                   ret, hist, dirty, nsyncs>>
    /\ search' = NoSearch

\* one readable file: count it, chunk it, insert its chunk and symbol rows
SyncFile ==
    /\ pc = "files" /\ run.pending # <<>>
    /\ tree[run.project][Head(run.pending).path] # "unreadable"
    /\ LET hit == Head(run.pending)
           lines == Text(tree[run.project][hit.path])
           chunks == ChunksOf(hit, lines)
           n == Len(chunks)
           r == CountFile([run EXCEPT !.pending = Tail(@)])
       IN IF PathInfo(hit.path).ext \in ChunkerExts
          THEN \E embs \in [1..n -> UNION {ChunkEmbeddings(run, ollama, chunks[i].name) : i \in 1..n}] :
               \E orders \in [1..n -> UNION {Perms(chunks[i].symbols) : i \in 1..n}] :
                  /\ \A i \in 1..n : embs[i] \in ChunkEmbeddings(run, ollama, chunks[i].name)
                  /\ \A i \in 1..n : orders[i] \in Perms(chunks[i].symbols)
                  /\ run' = AddChunks(r, hit.path, lines, chunks, embs, orders, 1)
          ELSE \E embedding \in ChunkEmbeddings(run, ollama, PathInfo(hit.path).stem) :
                  run' = AddFallback(r, hit, lines, embedding)
    /\ UNCHANGED <<chunkVars, storeVars, tree, ollama, pc, ret, hist, dirty, nsyncs>>
    /\ search' = NoSearch

\* the component pass on a table with a unique (project_path, file_path):
\* a file that has a committed row gets no second one
RECURSIVE AddComponentsUnique(_, _, _, _, _)
AddComponentsUnique(r, files, hits, embs, k) ==
    IF k > Len(hits) THEN r
    ELSE LET h == hits[k]
             row == ComponentRow(r.seq.components + 1, r.project,
                                 PathInfo(h.path).stem, h.tag, h.path, embs[k])
             there == \E j \in 1..Len(components) :
                         /\ components[j].project_path = r.project
                         /\ components[j].file_path = h.path
         IN AddComponentsUnique(
                [r EXCEPT !.tx.components = IF there THEN @ ELSE Append(@, row),
                          !.seq.components = IF there THEN @ ELSE @ + 1,
                          !.stats.components = @ + 1],
                files, hits, embs, k + 1)

\* the legacy component pass over COMPONENT_PATTERNS
RECURSIVE AddComponents(_, _, _, _, _)
AddComponents(r, files, hits, embs, k) ==
    IF k > Len(hits) THEN r
    ELSE LET h == hits[k]
             row == ComponentRow(r.seq.components + 1, r.project,
                                 PathInfo(h.path).stem, h.tag, h.path, embs[k])
         IN AddComponents([r EXCEPT !.tx.components = Append(@, row),
                                    !.seq.components = @ + 1,
                                    !.stats.components = @ + 1],
                          files, hits, embs, k + 1)

\* content = "" when the read fails, and no embedding is asked for ""
ComponentEmbeddings(r, up, files, h) ==
    IF r.generate_embeddings /\ files[h.path] # "unreadable"
    THEN EmbeddingOutcomes(up, PathInfo(h.path).stem) ELSE {None}

\* after the last file: the component pass, then con.commit()
SyncComponents ==
    /\ pc = "files" /\ run.pending = <<>>
    /\ LET files == tree[run.project]
           hits == ComponentFiles(files)
           n == Len(hits)
       IN \E embs \in [1..n -> UNION {ComponentEmbeddings(run, ollama, files, hits[k]) : k \in 1..n}] :
            /\ \A k \in 1..n : embs[k] \in ComponentEmbeddings(run, ollama, files, hits[k])
            /\ LET r == AddComponents(run, files, hits, embs, 1)
               IN /\ code_chunks' = code_chunks \o r.tx.code_chunks
                  /\ symbols' = symbols \o r.tx.symbols
                  /\ components' = components \o r.tx.components
                  /\ seqno' = r.seq
                  /\ run' = [r EXCEPT !.tx = EmptyTx]
    /\ pc' = "fts"
    /\ UNCHANGED <<chunkVars, tree, ollama, sync_events, fts, schema, ret, hist, dirty,
                   nsyncs>>
    /\ search' = NoSearch

\* INSERT INTO ..._fts(..._fts) VALUES('rebuild') for the three indices
SyncFtsRebuild ==
    /\ pc = "fts"
    /\ fts' = [code_chunks |-> code_chunks, symbols |-> symbols, components |-> components]
    /\ pc' = "audit"
    /\ UNCHANGED <<chunkVars, tree, ollama, code_chunks, symbols, components,
                   sync_events, seqno, schema, run, ret, hist, dirty, nsyncs>>
    /\ search' = NoSearch

\* except Exception: pass
SyncFtsFail ==
    /\ pc = "fts"
    /\ pc' = "audit"
    /\ UNCHANGED <<chunkVars, storeVars, tree, ollama, run, ret, hist, dirty, nsyncs>>
    /\ search' = NoSearch

\* a return that logs no sync event: SyncAudit without its INSERT
SyncReturnUnaudited ==
    /\ pc = "audit"
    /\ LET P == run.project
           rec == [done |-> TRUE, stats |-> run.stats,
                   nchunks |-> Len(OfProject(code_chunks, P)),
                   nsymbols |-> Len(OfProject(symbols, P))]
       IN /\ ret' = [project |-> P, status |-> "returned", stats |-> run.stats,
                     files |-> run.files, base |-> run.base,
                     requested |-> run.requested,
                     probe |-> run.probe]
          /\ hist' = [hist EXCEPT ![P] = [last |-> rec, prev |-> hist[P].last,
                                          same |-> ~dirty[P]]]
          /\ dirty' = [dirty EXCEPT ![P] = FALSE]
    /\ pc' = "idle" /\ run' = NoRun
    /\ UNCHANGED <<chunkVars, tree, ollama, storeVars, nsyncs>>
    /\ search' = NoSearch

\* the audit row, the last commit, and return stats
SyncAudit ==
    /\ pc = "audit"
    /\ LET P == run.project
           rec == [done |-> TRUE, stats |-> run.stats,
                   nchunks |-> Len(OfProject(code_chunks, P)),
                   nsymbols |-> Len(OfProject(symbols, P))]
       IN /\ sync_events' = Append(sync_events,
                [id |-> seqno.sync_events + 1, project_path |-> P,
                 event_type |-> "sync_v2", stats_json |-> run.stats])
          /\ seqno' = [seqno EXCEPT !.sync_events = @ + 1]
          /\ ret' = [project |-> P, status |-> "returned", stats |-> run.stats,
                     files |-> run.files, base |-> run.base,
                     requested |-> run.requested,
                     probe |-> run.probe]
          /\ hist' = [hist EXCEPT ![P] = [last |-> rec, prev |-> hist[P].last,
                                          same |-> ~dirty[P]]]
          /\ dirty' = [dirty EXCEPT ![P] = FALSE]
    /\ pc' = "idle" /\ run' = NoRun
    /\ UNCHANGED <<chunkVars, tree, ollama, code_chunks, symbols, components, fts,
                   schema, nsyncs>>
    /\ search' = NoSearch

\* an abort that keeps the inserts made so far: SyncAbort after a commit
SyncAbortKeeping ==
    /\ pc = "files"
    /\ code_chunks' = code_chunks \o run.tx.code_chunks
    /\ symbols' = symbols \o run.tx.symbols
    /\ components' = components \o run.tx.components
    /\ seqno' = run.seq
    /\ ret' = [NoRet EXCEPT !.project = run.project, !.status = "raised"]
    /\ pc' = "idle" /\ run' = NoRun
    /\ UNCHANGED <<chunkVars, sync_events, fts, schema, tree, ollama, hist, dirty, nsyncs>>
    /\ search' = NoSearch

\* an INSERT raises (sqlite3.Error): finally con.close() drops the open
\* transaction and the exception leaves sync_from_project_context
SyncAbort ==
    /\ pc = "files"
    /\ ret' = [NoRet EXCEPT !.project = run.project, !.status = "raised"]
    /\ pc' = "idle" /\ run' = NoRun
    /\ UNCHANGED <<chunkVars, storeVars, tree, ollama, hist, dirty, nsyncs>>
    /\ search' = NoSearch

\* the INSERT INTO sync_events or the commit after it raises: the rows of the
\* run were committed before it, finally con.close() drops the sync event
\* and the exception leaves sync_from_project_context
SyncAuditAbort ==
    /\ pc = "audit"
    /\ ret' = [NoRet EXCEPT !.project = run.project, !.status = "raised"]
    /\ pc' = "idle" /\ run' = NoRun
    /\ UNCHANGED <<chunkVars, storeVars, tree, ollama, hist, dirty, nsyncs>>
    /\ search' = NoSearch

\* symbol_search on the committed rows; scope is the project of the caller.
\* Without the tables the first SELECT raises sqlite3.OperationalError, which
\* nothing catches.
SymbolSearchCall(P, query, limit) ==
    /\ search' = [NoSearch EXCEPT !.kind = "symbol", !.scope = P, !.query = query,
                                  !.limit = limit, !.up = ollama,
                                  !.raised = ~schema,
                                  !.out = IF schema THEN symbol_search(symbols, query, limit)
                                          ELSE <<>>]
    /\ UNCHANGED <<chunkVars, storeVars, syncVars, tree, ollama>>

\* the SELECTs of vector_search are reached, and raise, when the probe and
\* the embedding of the query succeeded and the tables are missing
VectorRaises(available, query_embedding, tables) ==
    available /\ query_embedding # None /\ ~tables

\* vector_search: the probe, then the embedding of the query, which can
\* still fail after a successful probe
VectorSearchCall(P, query, limit) ==
    /\ \E query_embedding \in EmbeddingOutcomes(ollama, query) \cup {None} :
          search' = [NoSearch EXCEPT
                        !.kind = "vector", !.scope = P, !.query = query,
                        !.limit = limit, !.up = ollama,
                        !.raised = VectorRaises(ollama, query_embedding, schema),
                        !.out = IF VectorRaises(ollama, query_embedding, schema) THEN <<>>
                                ELSE vector_search(ollama, query_embedding, components,
                                                   code_chunks, limit)]
    /\ UNCHANGED <<chunkVars, storeVars, syncVars, tree, ollama>>

\* text_search: every statement sits in a try whose except passes, so
\* without the tables the list stays empty
TextSearchCall(P, query, limit) ==
    /\ search' = [NoSearch EXCEPT
                     !.kind = "text", !.scope = P, !.query = query, !.limit = limit,
                     !.up = ollama,
                     !.out = IF schema
                             THEN text_search(fts.code_chunks, code_chunks, components,
                                              query, limit)
                             ELSE <<>>]
    /\ UNCHANGED <<chunkVars, storeVars, syncVars, tree, ollama>>

\* hybrid_search: symbol_search is called first and outside any try
HybridSearchCall(P, query, limit, weights) ==
    /\ \E query_embedding \in EmbeddingOutcomes(ollama, query) \cup {None}, tie \in {0, 1} :
          search' = [NoSearch EXCEPT
                        !.kind = "hybrid", !.scope = P, !.query = query, !.limit = limit,
                        !.up = ollama, !.weights = weights,
                        !.raised = ~schema,
                        !.out = IF schema
                                THEN hybrid_search(fts.code_chunks, symbols, code_chunks,
                                                   components, ollama, query_embedding,
                                                   query, limit, weights, tie)
                                ELSE <<>>]
    /\ UNCHANGED <<chunkVars, storeVars, syncVars, tree, ollama>>

ChunkOff == input = [ext |-> ".py", lines |-> <<>>] /\ output = <<>> /\ cpc = "off"

vars == <<chunkVars, storeVars, syncVars, tree, ollama, search>>

----------------------------------------------------------------------------
(* Spec: text-only sync runs of two projects that share one store, with     *)
(* edits of the trees between the runs and symbol searches at any moment.   *)

SyncQueries == {nf, nA}

InitSync == ChunkOff /\ InitStore /\ ollama = FALSE

NextSync ==
    \/ \E P \in Projects, path \in Paths, st \in {"absent", "unreadable", "py1", "py2", "tsx1"} :
          EditTree(P, path, st)
    \/ \E P \in Projects : SyncBegin(P, FALSE)
    \/ SyncSkipUnreadable
    \/ SyncFile
    \/ SyncComponents
    \/ SyncFtsRebuild
    \/ SyncFtsFail
    \/ SyncAudit
    \/ SyncAbort
    \/ SyncAuditAbort
    \/ \E P \in Projects, query \in SyncQueries : SymbolSearchCall(P, query, MaxLimit)

Spec == InitSync /\ [][NextSync]_vars

(* SpecFallback: one text-only sync run of project A on every bounded tree: *)
(* files with and without declarations, unreadable files, a file under an   *)
(* excluded directory and a file whose extension has no chunker.            *)

FallbackStates(path) ==
    CASE path = pM -> {"absent", "unreadable", "py0", "py1"}
      [] path = pC -> {"absent", "ts0", "tsx1"}
      [] path = pX -> {"absent", "py2"}
      [] path = pR -> {"absent", "unreadable", "md1"}

FallbackTrees ==
    {[P \in Projects |-> [path \in Paths |-> IF P = "A" THEN t[path] ELSE "absent"]] :
        t \in {f \in [Paths -> {"absent", "unreadable", "py0", "py1", "py2", "ts0",
                                "tsx1", "md1"}] :
                  \A path \in Paths : f[path] \in FallbackStates(path)}}

InitFallback ==
    /\ ChunkOff
    /\ tree \in FallbackTrees
    /\ code_chunks = <<>> /\ symbols = <<>> /\ components = <<>>
    /\ sync_events = <<>>
    /\ fts = EmptyTx
    /\ seqno = Seq0
    /\ schema = FALSE
    /\ pc = "idle" /\ run = NoRun /\ ret = NoRet
    /\ hist = [P \in Projects |-> [last |-> NoRec, prev |-> NoRec, same |-> FALSE]]
    /\ dirty = [P \in Projects |-> FALSE]
    /\ nsyncs = MaxSyncs - 1
    /\ search = NoSearch
    /\ ollama = FALSE

NextFallback ==
    \/ SyncBegin("A", FALSE)
    \/ SyncSkipUnreadable
    \/ SyncFile
    \/ SyncComponents
    \/ SyncFtsRebuild
    \/ SyncFtsFail
    \/ SyncAudit

SpecFallback == InitFallback /\ [][NextFallback]_vars

----------------------------------------------------------------------------
(* SpecEmbed: sync runs with and without --embeddings while the provider    *)
(* comes and goes, and vector searches.                                     *)

InitEmbed == ChunkOff /\ InitStore /\ ollama \in BOOLEAN

NextEmbed ==
    \/ ProviderFlip
    \/ \E P \in Projects, embeddings \in BOOLEAN : SyncBegin(P, embeddings)
    \/ SyncFile
    \/ SyncComponents
    \/ SyncFtsRebuild
    \/ SyncFtsFail
    \/ SyncAudit
    \/ \E P \in Projects : VectorSearchCall(P, nf, MaxLimit)

SpecEmbed == InitEmbed /\ [][NextEmbed]_vars

----------------------------------------------------------------------------
(* SpecSearch: symbol_search on every bounded symbols table *)

qa == <<"a">>
qab == <<"a", "b">>
qba == <<"b", "a">>
qbA == <<"b", "A">>

SearchNames == {qa, nA, qab, qba, qbA}

\* a chunk that starts on line 1 of components/C.tsx, and its symbol rows
SearchChunk(name) ==
    [chunk_type |-> "function", name |-> name, start_line |-> 1, end_line |-> 1,
     parent_name |-> None, language |-> "typescript", symbols |-> {name}]

ChunkIdOf(P) == IF P = "A" THEN 1 ELSE 2

\* tables of at most MaxRows rows; the names of one chunk are distinct
SearchTables ==
    {t \in UNION {[1..k -> [name : SearchNames, project : Projects]] : k \in 0..MaxRows} :
        \A i, j \in 1..Len(t) : i # j => t[i] # t[j]}

SymbolsOf(t) ==
    [k \in 1..Len(t) |->
        SymbolRow(k, t[k].project, pC, t[k].name, SearchChunk(t[k].name),
                  ChunkIdOf(t[k].project))]

ChunksOfTable(t) ==
    LET ps == {t[k].project : k \in 1..Len(t)}
        first(P) == CHOOSE k \in 1..Len(t) :
                        t[k].project = P /\ \A h \in 1..(k - 1) : t[h].project # P
        row(P) == ChunkRow(ChunkIdOf(P), P, pC, 0, SearchChunk(t[first(P)].name), <<>>, None)
    IN (IF "A" \in ps THEN <<row("A")>> ELSE <<>>)
       \o (IF "B" \in ps THEN <<row("B")>> ELSE <<>>)

InitSearch ==
    /\ ChunkOff
    /\ tree = InitTree /\ ollama = FALSE
    /\ \E t \in SearchTables :
          /\ symbols = SymbolsOf(t)
          /\ code_chunks = ChunksOfTable(t)
          /\ seqno = [Seq0 EXCEPT !.symbols = Len(t), !.code_chunks = 2]
    /\ schema = TRUE
    /\ components = <<>> /\ sync_events = <<>> /\ fts = EmptyTx
    /\ pc = "idle" /\ run = NoRun /\ ret = NoRet
    /\ hist = [P \in Projects |-> [last |-> NoRec, prev |-> NoRec, same |-> FALSE]]
    /\ dirty = [P \in Projects |-> FALSE]
    /\ nsyncs = 0
    /\ search = NoSearch

NextSearch ==
    \E query \in SearchNames, limit \in 1..MaxLimit : SymbolSearchCall("A", query, limit)

SpecSearch == InitSearch /\ [][NextSearch]_vars

----------------------------------------------------------------------------
(* SpecHybrid: the four searches on the store that syncs of the two trees   *)
(* leave, with the embeddings the rows can hold, and on a store without     *)
(* tables.                                                                  *)

PlainOrder(S) == CHOOSE o \in Perms(S) : TRUE

\* the file loop of a run without embeddings on a tree that is all readable
RECURSIVE PlainFiles(_, _, _, _)
PlainFiles(r, files, hits, k) ==
    IF k > Len(hits) THEN r
    ELSE LET lines == Text(files[hits[k].path])
             chunks == ChunksOf(hits[k], lines)
         IN PlainFiles(AddChunks(CountFile(r), hits[k].path, lines, chunks,
                                 [i \in 1..Len(chunks) |-> None],
                                 [i \in 1..Len(chunks) |-> PlainOrder(chunks[i].symbols)], 1),
                       files, hits, k + 1)

PlainRun(P, seq) ==
    LET files == InitTree[P]
        r == PlainFiles([NoRun EXCEPT !.project = P, !.seq = seq], files,
                        FilesToProcess(files), 1)
        hits == ComponentFiles(files)
    IN AddComponents(r, files, hits, [k \in 1..Len(hits) |-> None], 1)

\* the rows after sync of A and sync of B
HybridStore ==
    LET a == PlainRun("A", Seq0)
        b == PlainRun("B", a.seq)
    IN [code_chunks |-> a.tx.code_chunks \o b.tx.code_chunks,
        symbols |-> a.tx.symbols \o b.tx.symbols,
        components |-> a.tx.components \o b.tx.components,
        seq |-> b.seq]

WithEmbedding(row, blob) ==
    [row EXCEPT !.embedding = blob,
                !.embedding_model = IF blob # None THEN EMBEDDING_MODEL ELSE None]

\* what a chunk row can hold: nothing, the provider's vector for it, or a
\* vector of another length, left by a provider model of another dimension
ChunkBlobs(r) == {None, PackF32(ProviderVector(r.name)), PackF32(<<0, 3, 4>>)}

\* a component row: nothing, or a vector along the first axis or against the
\* second
ComponentBlobs == {None, PackF32(<<1, 0>>), PackF32(<<0, -1>>)}

no == <<"o">>

HybridQueries == {nf, nA, nC, no}

BadWeights == [semantic |-> 50, symbol |-> 50, fulltext |-> 50]

InitHybrid ==
    /\ ChunkOff
    /\ tree = InitTree /\ ollama \in BOOLEAN
    /\ schema \in BOOLEAN
    /\ \E store \in {HybridStore} :
          IF schema
          THEN /\ \E e \in [1..Len(store.code_chunks) ->
                              UNION {ChunkBlobs(store.code_chunks[k]) :
                                        k \in 1..Len(store.code_chunks)}] :
                    /\ \A k \in 1..Len(store.code_chunks) :
                          e[k] \in ChunkBlobs(store.code_chunks[k])
                    /\ code_chunks = [k \in 1..Len(store.code_chunks) |->
                                         WithEmbedding(store.code_chunks[k], e[k])]
               /\ \E c \in [1..Len(store.components) -> ComponentBlobs] :
                    components = [k \in 1..Len(store.components) |->
                                     WithEmbedding(store.components[k], c[k])]
               /\ symbols = store.symbols
               /\ seqno = store.seq
               /\ fts \in {EmptyTx, [code_chunks |-> code_chunks, symbols |-> symbols,
                                     components |-> components]}
          ELSE /\ code_chunks = <<>> /\ symbols = <<>> /\ components = <<>>
               /\ seqno = Seq0 /\ fts = EmptyTx
    /\ sync_events = <<>>
    /\ pc = "idle" /\ run = NoRun /\ ret = NoRet
    /\ hist = [P \in Projects |-> [last |-> NoRec, prev |-> NoRec, same |-> FALSE]]
    /\ dirty = [P \in Projects |-> FALSE]
    /\ nsyncs = 0
    /\ search = NoSearch

\* No search changes the store, so a second call in a behaviour would find
\* what a first call finds: one call is made on each store.
NextHybrid ==
    \/ \E query \in HybridQueries, limit \in 1..MaxLimit :
          search = NoSearch /\ SymbolSearchCall("A", query, limit)
    \/ \E query \in HybridQueries, limit \in 1..MaxLimit :
          search = NoSearch /\ TextSearchCall("A", query, limit)
    \/ \E query \in HybridQueries, limit \in 1..MaxLimit :
          search = NoSearch /\ VectorSearchCall("A", query, limit)
    \/ \E query \in HybridQueries, limit \in 1..MaxLimit,
          weights \in {SEARCH_WEIGHTS, BadWeights} :
          search = NoSearch /\ HybridSearchCall("A", query, limit, weights)

SpecHybrid == InitHybrid /\ [][NextHybrid]_vars

----------------------------------------------------------------------------
(* SpecChunk: the three chunkers on every bounded text *)

InitChunk ==
    /\ input \in ChunkInputs
    /\ output = <<>>
    /\ cpc = "input"
    /\ InitStore /\ ollama = FALSE

RunTypeScriptChunker ==
    /\ cpc = "input" /\ input.ext = ".ts"
    /\ output' = TypeScriptChunk(input.lines)
    /\ cpc' = "done"
    /\ UNCHANGED <<input, storeVars, syncVars, tree, ollama, search>>

RunSwiftChunker ==
    /\ cpc = "input" /\ input.ext = ".swift"
    /\ output' = SwiftChunk(input.lines)
    /\ cpc' = "done"
    /\ UNCHANGED <<input, storeVars, syncVars, tree, ollama, search>>

RunPythonChunker ==
    /\ cpc = "input" /\ input.ext = ".py"
    /\ output' = PythonChunk(input.lines)
    /\ cpc' = "done"
    /\ UNCHANGED <<input, storeVars, syncVars, tree, ollama, search>>

NextChunk == RunTypeScriptChunker \/ RunSwiftChunker \/ RunPythonChunker

SpecChunk == InitChunk /\ [][NextChunk]_vars

----------------------------------------------------------------------------
(* Claims *)

\* C1: when rows of both projects live in the store, a search made for one
\* project returns no row that was written under the other project.
SearchIsolation ==
    (\A P \in Projects : Len(OfProject(symbols, P)) > 0)
        => \A k \in 1..Len(search.out) : search.out[k].src.project_path = search.scope

\* the extent of the class declared on line c (1-based) reaches line j
InClassExtent(lines, c, j) ==
    /\ lines[c].kw = "class"
    /\ c < j /\ j - 1 <= find_python_block_end(lines, c - 1)

\* C2: a def or async def indented deeper than a class declaration and lying
\* inside that class's extent is emitted as a chunk of kind 'method' whose
\* parent_name is the class's name; a def outside all class extents is
\* emitted with kind 'function' and no parent.
MethodsAndFunctions ==
    (cpc = "done" /\ input.ext = ".py") =>
        \A j \in 1..Len(input.lines) :
            LET lines == input.lines
                encl == {c \in 1..Len(lines) :
                            InClassExtent(lines, c, j) /\ lines[j].indent > lines[c].indent}
            IN lines[j].kw \in {"def", "async_def"} =>
                 /\ encl # {} =>
                       \E k \in 1..Len(output) :
                          /\ output[k].name = lines[j].name
                          /\ output[k].chunk_type = "method"
                          /\ \E c \in encl : output[k].parent_name = lines[c].name
                 /\ (\A c \in 1..Len(lines) : ~InClassExtent(lines, c, j)) =>
                       \E k \in 1..Len(output) :
                          /\ output[k].name = lines[j].name
                          /\ output[k].chunk_type = "function"
                          /\ output[k].parent_name = None

\* C3: every chunk returned by a chunker has 1 <= start_line <= end_line, and
\* end_line is at most the number of lines of the text.
ChunkLineRange ==
    cpc = "done" =>
        \A k \in 1..Len(output) :
            /\ 1 <= output[k].start_line
            /\ output[k].start_line <= output[k].end_line
            /\ output[k].end_line <= count_lines(input.lines)

\* a bracket-family chunk whose braces never balance and that runs to the
\* last line of the text
ChunkLineRangeWitness ==
    /\ cpc = "done" /\ input.ext = ".ts"
    /\ \E k \in 1..Len(output) :
          /\ BraceScan(input.lines, output[k].start_line - 1, 0, FALSE) = -1
          /\ output[k].end_line = Len(input.lines)
          /\ output[k].end_line > output[k].start_line

\* the patterns of the file's chunker that match on line l
MatchingPatterns(ext, l) ==
    CASE ext = ".ts" -> {TSPatterns[p] : p \in {p \in 1..Len(TSPatterns) : TSMatch(TSPatterns[p], l)}}
      [] ext = ".swift" ->
            {SwiftPatterns[p] : p \in {p \in 1..Len(SwiftPatterns) : SwiftMatch(SwiftPatterns[p], l)}}
      [] OTHER -> {p \in {"function", "async_function", "class"} : PyMatch(p, l)}

ChunksStartingAt(j) == {k \in 1..Len(output) : output[k].start_line = j}

NoSharedStart ==
    \A i, k \in 1..Len(output) : i # k => output[i].start_line # output[k].start_line

\* C4 as stated: a declaration matched by several patterns yields exactly one
\* chunk, and no two chunks of a file share a start line.
OneChunkPerDeclaration ==
    cpc = "done" =>
        /\ NoSharedStart
        /\ \A j \in 1..Len(input.lines) :
              Cardinality(MatchingPatterns(input.ext, input.lines[j])) > 1
                  => Cardinality(ChunksStartingAt(j)) = 1

\* line j lies in the span of a chunk that starts above it
CoveredFromAbove(j) ==
    \E k \in 1..Len(output) : output[k].start_line < j /\ j <= output[k].end_line

\* C4 amended: a declaration matched by several patterns yields exactly one
\* chunk, labelled with one of the matching kinds, unless its start line lies
\* inside a chunk accepted above it, and then it yields none; no two chunks
\* of a file share a start line.
OneChunkPerUncoveredDeclaration ==
    cpc = "done" =>
        /\ NoSharedStart
        /\ \A j \in 1..Len(input.lines) :
              Cardinality(MatchingPatterns(input.ext, input.lines[j])) > 1 =>
                 /\ Cardinality(ChunksStartingAt(j)) = (IF CoveredFromAbove(j) THEN 0 ELSE 1)
                 /\ \A k \in ChunksStartingAt(j) :
                       output[k].chunk_type \in MatchingPatterns(input.ext, input.lines[j])

\* one declaration matched by two patterns became one chunk, another one
\* inside that chunk became none
OneChunkWitness ==
    /\ cpc = "done"
    /\ \E j, h \in 1..Len(input.lines) :
          /\ Cardinality(MatchingPatterns(input.ext, input.lines[j])) > 1
          /\ Cardinality(MatchingPatterns(input.ext, input.lines[h])) > 1
          /\ Cardinality(ChunksStartingAt(j)) = 1
          /\ j < h /\ CoveredFromAbove(h)

\* C5: two consecutive completed syncs of a project with no edit of its tree
\* in between return the same code_chunks and symbols counts and leave the
\* same numbers of chunk rows and symbol rows.
SyncIdempotent ==
    \A P \in Projects :
        (hist[P].prev.done /\ hist[P].last.done /\ hist[P].same) =>
            /\ hist[P].last.stats.code_chunks = hist[P].prev.stats.code_chunks
            /\ hist[P].last.stats.symbols = hist[P].prev.stats.symbols
            /\ hist[P].last.nchunks = hist[P].prev.nchunks
            /\ hist[P].last.nsymbols = hist[P].prev.nsymbols

SyncIdempotentWitness ==
    \E P \in Projects :
        /\ hist[P].prev.done /\ hist[P].last.done /\ hist[P].same
        /\ hist[P].last.nchunks > 1 /\ hist[P].last.nsymbols > 1

\* the files of a tree that a run reads: enumerated and readable
ReadFiles(files) ==
    SelectSeq(FilesToProcess(files), LAMBDA h : files[h.path] # "unreadable")

RECURSIVE ExpectedChunks(_, _, _)
ExpectedChunks(files, hits, k) ==
    IF k > Len(hits) THEN <<>>
    ELSE LET cs == ChunksOf(hits[k], Text(files[hits[k].path]))
         IN [i \in 1..Len(cs) |-> <<hits[k].path, cs[i]>>]
            \o ExpectedChunks(files, hits, k + 1)

ChunkFacts(row) ==
    <<row.file_path, row.chunk_type, row.name, row.parent_name, row.start_line, row.end_line>>

ExpectedFacts(e) ==
    [k \in 1..Len(e) |->
        <<e[k][1], e[k][2].chunk_type, e[k][2].name, e[k][2].parent_name,
          e[k][2].start_line, e[k][2].end_line>>]

ExpectedSymbols(e) ==
    UNION {{<<e[k][1], n, e[k][2].start_line>> : n \in e[k][2].symbols} : k \in 1..Len(e)}

\* C6: after a sync of P returned, the code_chunks and symbols rows of P are
\* exactly the rows this run made from the tree it walked, none of them is a
\* row of an earlier run, and the returned counts are the numbers of rows.
FullReplace ==
    (pc = "idle" /\ ret.status = "returned") =>
        LET cs == OfProject(code_chunks, ret.project)
            ss == OfProject(symbols, ret.project)
            e == ExpectedChunks(ret.files, ReadFiles(ret.files), 1)
        IN /\ [k \in 1..Len(cs) |-> ChunkFacts(cs[k])] = ExpectedFacts(e)
           /\ {<<ss[k].file_path, ss[k].symbol_name, ss[k].start_line>> : k \in 1..Len(ss)}
                 = ExpectedSymbols(e)
           /\ Len(ss) = Cardinality(ExpectedSymbols(e))
           /\ \A k \in 1..Len(cs) : cs[k].id > ret.base.code_chunks
           /\ \A k \in 1..Len(ss) : ss[k].id > ret.base.symbols
           /\ ret.stats.code_chunks = Len(cs)
           /\ ret.stats.symbols = Len(ss)

\* the second run of a project returned after one of its files was removed
\* or became unreadable, and the rows that file had are gone
FullReplaceWitness ==
    /\ pc = "idle" /\ ret.status = "returned"
    /\ ret.files[pM] \in {"absent", "unreadable"}
    /\ hist[ret.project].prev.done
    /\ hist[ret.project].prev.nchunks > hist[ret.project].last.nchunks
    /\ hist[ret.project].last.nchunks > 0

\* the rows a run of P with a failed probe has written so far
RowsNull(rows, P) ==
    \A k \in 1..Len(rows) :
        rows[k].project_path = P => rows[k].embedding = None /\ rows[k].embedding_model = None

\* C7: when the availability probe fails, a sync requested with embeddings
\* runs without asking for embeddings and returns its counts, every chunk row
\* it writes has a null embedding and a null model tag, and a vector_search
\* whose probe fails returns the empty list.
ProviderDownDegrades ==
    /\ (pc # "idle" /\ run.requested /\ ~run.probe) =>
          /\ ~run.generate_embeddings
          /\ RowsNull(run.tx.code_chunks, run.project)
          /\ pc = "files" \/ RowsNull(code_chunks, run.project)
    /\ (pc = "idle" /\ ret.status = "returned" /\ ret.requested /\ ~ret.probe) =>
          /\ RowsNull(code_chunks, ret.project)
          /\ ret.stats.code_chunks = Len(OfProject(code_chunks, ret.project))
    /\ (search.kind = "vector" /\ ~search.up) => search.out = <<>> /\ ~search.raised

\* a degraded run returned with rows, the store holds embeddings of another
\* project's run, and a vector search made while the provider is down
ProviderDownWitness ==
    /\ pc = "idle" /\ ret.status = "returned" /\ ret.requested /\ ~ret.probe
    /\ ret.stats.code_chunks > 0
    /\ Len(OfProject(code_chunks, ret.project)) > 0
    /\ \E k \in 1..Len(code_chunks) : code_chunks[k].embedding # None
    /\ search.kind = "vector" /\ ~search.up

RowsOfFile(rows, P, path) ==
    SelectSeq(rows, LAMBDA r : r.project_path = P /\ r.file_path = path)

\* C8: when a sync returned, an enumerated file whose read failed has no
\* chunk or symbol row and is not counted in files, and every other
\* enumerated file has the rows of its chunks and is counted.
PerFileIsolation ==
    (pc = "idle" /\ ret.status = "returned") =>
        LET hits == FilesToProcess(ret.files)
        IN /\ \A h \in 1..Len(hits) :
                 LET path == hits[h].path
                     cs == RowsOfFile(code_chunks, ret.project, path)
                     ss == RowsOfFile(symbols, ret.project, path)
                     chunks == ChunksOf(hits[h], Text(ret.files[path]))
                 IN IF ret.files[path] = "unreadable"
                    THEN cs = <<>> /\ ss = <<>>
                    ELSE /\ Len(cs) = Len(chunks)
                         /\ \A k \in 1..Len(cs) :
                               /\ cs[k].name = chunks[k].name
                               /\ cs[k].start_line = chunks[k].start_line
                               /\ cs[k].end_line = chunks[k].end_line
                         /\ {ss[k].symbol_name : k \in 1..Len(ss)}
                               = UNION {chunks[k].symbols : k \in 1..Len(chunks)}
           /\ ret.stats.files = Cardinality({h \in 1..Len(hits) :
                                                ret.files[hits[h].path] # "unreadable"})

\* a run returned after it skipped one unreadable file and stored the rows
\* of another file
PerFileIsolationWitness ==
    /\ pc = "idle" /\ ret.status = "returned"
    /\ \E bad, good \in Paths :
          /\ ret.files[bad] = "unreadable"
          /\ ret.files[good] \notin {"unreadable", "absent"}
          /\ RowsOfFile(code_chunks, ret.project, good) # <<>>
    /\ ret.stats.files = 1

\* query occurs in name at position i, letters compared exactly
OccursAt(name, query, i) ==
    /\ i >= 1 /\ i + Len(query) - 1 <= Len(name)
    /\ SubSeq(name, i, i + Len(query) - 1) = query

ProperPrefix(name, query) == name # query /\ OccursAt(name, query, 1)

InnerSubstring(name, query) ==
    /\ ~OccursAt(name, query, 1)
    /\ \E i \in 2..Len(name) : OccursAt(name, query, i)

\* C9: the results of symbol_search are in non-increasing score order, a
\* result whose name equals the query has score 1.0 and precedes every result
\* whose name has the query only as a proper prefix or as an inner substring,
\* no (name, file, line) appears twice, and there are at most limit results.
SymbolRanking ==
    search.kind = "symbol" =>
        LET out == search.out
        IN /\ \A i, j \in 1..Len(out) : i < j => out[i].score >= out[j].score
           /\ \A i \in 1..Len(out) : out[i].name = search.query => out[i].score = 1000
           /\ \A i, j \in 1..Len(out) :
                 (/\ out[i].name = search.query
                  /\ \/ ProperPrefix(out[j].name, search.query)
                     \/ InnerSubstring(out[j].name, search.query)) => i < j
           /\ \A i, j \in 1..Len(out) : i # j => SymbolKey(out[i]) # SymbolKey(out[j])
           /\ Len(out) <= search.limit

\* an exact match above a prefix match, from a table in which two rows had
\* the same (name, file, line)
SymbolRankingWitness ==
    /\ search.kind = "symbol"
    /\ \E i, j \in 1..Len(search.out) :
          /\ search.out[i].score = 1000
          /\ search.out[j].score = 800 /\ ProperPrefix(search.out[j].name, search.query)
    /\ \E i, j \in 1..Len(symbols) :
          /\ i # j
          /\ symbols[i].symbol_name = search.query
          /\ symbols[j].symbol_name = search.query
          /\ symbols[i].file_path = symbols[j].file_path
          /\ symbols[i].start_line = symbols[j].start_line

SubstringIgnoringCase(name, query) ==
    \E i \in 1..Len(name) : OccursAt(SqlLower(name), SqlLower(query), i)

Substring(name, query) == \E i \in 1..Len(name) : OccursAt(name, query, i)

ResultFor(r, score, match_type) ==
    \E k \in 1..Len(search.out) :
        /\ SymbolKey(search.out[k]) = <<r.symbol_name, r.file_path, r.start_line>>
        /\ search.out[k].score = score
        /\ search.out[k].match_type = match_type

\* C10: when the table has no more rows than limit, a symbol whose name
\* contains the query only when letter case is ignored is returned with score
\* 0.4 and match type case_insensitive, a symbol with the query as a proper
\* prefix with 0.8, and one with the query as an inner substring with 0.5.
CaseInsensitiveTier ==
    (search.kind = "symbol" /\ Len(symbols) <= search.limit) =>
        \A k \in 1..Len(symbols) :
            LET r == symbols[k]
            IN /\ (SubstringIgnoringCase(r.symbol_name, search.query)
                      /\ ~Substring(r.symbol_name, search.query))
                     => ResultFor(r, 400, "case_insensitive")
               /\ ProperPrefix(r.symbol_name, search.query) => ResultFor(r, 800, "prefix")
               /\ InnerSubstring(r.symbol_name, search.query) => ResultFor(r, 500, "contains")

\* the weighted sum of a breakdown b under weights w, times 10 + (m - 1) when
\* m > 1 and times 10 otherwise: the claimed score in units of 10^-6
ClaimedScore(b, w, m) ==
    (b.semantic * w.semantic + b.symbol * w.symbol + b.fulltext * w.fulltext)
        * (IF m > 1 THEN 10 + (m - 1) ELSE 10)

ScoresAt(results, key) ==
    {results[i].score : i \in {j \in 1..Len(results) : HybridKey(results[j]) = key}}

\* C12 as stated: when several results of symbol_search or of text_search map
\* to one (file, line) key, the score hybrid_search records for that signal
\* under the key is the highest of them, never a lower later one.
KeepsBestPerSignal ==
    (search.kind = "hybrid" /\ ~search.raised) =>
        \A k \in 1..Len(search.out) :
            /\ \A v \in ScoresAt(symbol_search(symbols, search.query, search.limit * 2),
                                 search.out[k].key) :
                  search.out[k].breakdown.symbol >= v
            /\ \A v \in ScoresAt(text_search(fts.code_chunks, code_chunks, components,
                                             search.query, search.limit * 2),
                                 search.out[k].key) :
                  search.out[k].breakdown.fulltext >= v

\* result j of the search is the entry that vector_search's hit on chunk row c
\* opened: it has the type and the source of the row and no line
SemanticEntryOf(j, c) ==
    /\ search.out[j].src = [table |-> "code_chunks", id |-> c.id,
                            project_path |-> c.project_path]
    /\ search.out[j].line = NoLine
    /\ search.out[j].breakdown.semantic # 0

\* result k of the search is keyed by the file and the start line of chunk
\* row c and was opened by a symbol or a text hit on a row of c's project
KeyedEntryOf(k, c) ==
    /\ search.out[k].key = <<c.file_path, c.start_line>>
    /\ search.out[k].src.project_path = c.project_path
    /\ search.out[k].breakdown.symbol # 0 \/ search.out[k].breakdown.fulltext # 0

\* C13 as stated: a code chunk (file F, start line L) that vector_search
\* returns and that symbol_search or text_search returns too gives one result
\* of hybrid_search, keyed (F, L), never two separate results.
OneResultPerChunk ==
    (search.kind = "hybrid" /\ ~search.raised) =>
        \A c \in {code_chunks[i] : i \in 1..Len(code_chunks)} :
            \A j, k \in 1..Len(search.out) :
                ~(SemanticEntryOf(j, c) /\ KeyedEntryOf(k, c))

\* C14 as stated: weights whose semantic, symbol and fulltext entries do not
\* sum to 1.0 are rejected with a hard failure, and no ranked result is ever
\* produced from them.
WeightsValidated ==
    (search.kind = "hybrid"
        /\ search.weights.semantic + search.weights.symbol + search.weights.fulltext # 100)
    => (search.raised /\ search.out = <<>>)

\* C15 as stated: a call of symbol_search, text_search, vector_search or
\* hybrid_search against a store whose tables have not been created returns
\* an empty list and raises no exception.
UninitialisedStoreEmpty ==
    (search.kind # "none" /\ ~schema) => (~search.raised /\ search.out = <<>>)

\* the vector stored in the row a result of vector_search was built from
StoredVector(src) ==
    LET rows == IF src.table = "components" THEN components ELSE code_chunks
        r == CHOOSE r \in {rows[i] : i \in 1..Len(rows)} : r.id = src.id
    IN blob_to_vector(r.embedding)

\* C16 as stated: vector_search skips every stored embedding whose length
\* differs from the length of the query vector: no result comes from such a
\* row.
MismatchSkipped ==
    (search.kind = "vector" /\ ~search.raised) =>
        \A k \in 1..Len(search.out) :
            Len(StoredVector(search.out[k].src)) = Len(ProviderVector(search.query))

\* C17 as stated: the results of text_search are in non-increasing score
\* order.
TextRanked ==
    search.kind = "text" =>
        \A j, k \in 1..Len(search.out) :
            j < k => search.out[j].score >= search.out[k].score

\* the project whose sync run a step belongs to: the one that begins in the
\* step, or the one that is under way
StepProject == IF pc = "idle" THEN run'.project ELSE run.project

\* C18: a run of sync(P) inserts, deletes and changes only rows of P: in
\* every step of the run, up to its return or its abort, the code_chunks,
\* symbols and components rows of every other project are unchanged.
WriteScoped ==
    [][\A Q \in Projects \ {StepProject} :
          /\ OfProject(code_chunks', Q) = OfProject(code_chunks, Q)
          /\ OfProject(symbols', Q) = OfProject(symbols, Q)
          /\ OfProject(components', Q) = OfProject(components, Q)]_vars

\* a run of B has returned, with rows written, on a store that holds rows of A
WriteScopedWitness ==
    /\ pc = "idle" /\ ret.status = "returned" /\ ret.project = "B"
    /\ OfProject(code_chunks, "B") # <<>> /\ OfProject(symbols, "B") # <<>>
    /\ OfProject(code_chunks, "A") # <<>> /\ OfProject(symbols, "A") # <<>>
    /\ OfProject(components, "A") # <<>>

\* C19 as stated: the span of a chunk of TypeScriptChunker or SwiftChunker
\* never reaches past the window of 50 lines after its start line:
\* end_line <= start_line + 50, also when the braces balance later in the
\* file.
BlockEndCapped ==
    (cpc = "done" /\ input.ext \in {".ts", ".swift"}) =>
        \A k \in 1..Len(output) :
            output[k].end_line <= output[k].start_line + BlockWindow

\* the function and method candidates of a text, and its class candidates
FuncCandidates(lines) ==
    {c \in {PyCandidates(lines)[i] : i \in 1..Len(PyCandidates(lines))} :
        c.chunk_type # "class"}

ClassCandidates(lines) ==
    {c \in {PyCandidates(lines)[i] : i \in 1..Len(PyCandidates(lines))} :
        c.chunk_type = "class"}

\* C20 as stated: a function or method candidate of PythonChunker is
\* discarded only when its start line lies in the span of a class, never
\* because of another function or method, and every def nested in a class is
\* emitted as a chunk of its own, starting at its own line, in addition to
\* the chunk of the class that contains it.
NestedMethodsChunked ==
    (cpc = "done" /\ input.ext = ".py") =>
        LET lines == input.lines
        IN /\ \A c \in FuncCandidates(lines) :
                 (\A d \in ClassCandidates(lines) : c.start \notin d.start..d.end) =>
                     \E k \in 1..Len(output) :
                         output[k].start_line = c.start + 1 /\ output[k].name = c.name
           /\ \A j \in 1..Len(lines) :
                 \A c \in 1..Len(lines) :
                     (/\ lines[j].kw \in {"def", "async_def"}
                      /\ InClassExtent(lines, c, j) /\ lines[c].indent = 0
                      /\ lines[j].indent > lines[c].indent) =>
                         /\ \E k \in 1..Len(output) :
                               /\ output[k].chunk_type = "class"
                               /\ output[k].start_line = c
                         /\ \E k \in 1..Len(output) :
                               /\ output[k].start_line = j
                               /\ output[k].name = lines[j].name

\* lines i..(j - 1) are decorator lines in column 0 and the line above them,
\* if there is one, is not: i is the first decorator of the def on line j
FirstDecorator(lines, i, j) ==
    /\ i < j
    /\ \A h \in i..(j - 1) : lines[h].kw = "deco" /\ lines[h].indent = 0
    /\ i > 1 => ~(lines[i - 1].kw = "deco" /\ lines[i - 1].indent = 0)

\* C21 as stated: for a def or async def with decorator lines right above
\* it, the chunk of PythonChunker starts at the first decorator line and
\* ends where the chunk of the undecorated function ends, on the last line
\* of the function body.
DecoratedSpan ==
    (cpc = "done" /\ input.ext = ".py") =>
        \A j \in 1..Len(input.lines) :
            \A i \in 1..Len(input.lines) :
                (/\ input.lines[j].kw \in {"def", "async_def"}
                 /\ input.lines[j].indent = 0
                 /\ FirstDecorator(input.lines, i, j)) =>
                    \E k \in 1..Len(output) :
                        /\ output[k].name = input.lines[j].name
                        /\ output[k].start_line = i
                        /\ output[k].end_line = find_python_block_end(input.lines, j - 1) + 1

\* the chunk rows of the open transaction of run r whose embedding call
\* failed: get_embedding is called for every chunk of a run that generates
\* embeddings, and its except branch prints "Embedding failed" and returns
\* None
FailedEmbeds(r) ==
    IF r.generate_embeddings
    THEN {k \in 1..Len(r.tx.code_chunks) : r.tx.code_chunks[k].embedding = None}
    ELSE {}

\* the reports of unavailability made so far in run r: the warning of main
\* when the probe fails, and one line of get_embedding per failed call
Reports(r) ==
    (IF r.requested /\ ~r.probe THEN 1 ELSE 0) + Cardinality(FailedEmbeds(r))

\* C22 as stated: in a sync run with embeddings requested, when the provider
\* is unreachable at the start or from some point during the run, the whole
\* run is text-only (no row of the run holds an embedding) and the
\* unavailability is reported exactly once.
DegradedOnce ==
    (pc = "files" /\ run.requested /\ Reports(run) > 0) =>
        /\ \A k \in 1..Len(run.tx.code_chunks) : run.tx.code_chunks[k].embedding = None
        /\ Reports(run) = 1

\* the sync event a returning run of project P with counts stats appends
IsAuditOf(row, P, stats) ==
    /\ row.project_path = P
    /\ row.event_type = "sync_v2"
    /\ row.stats_json = stats

\* C23: a sync run that returns appends exactly one sync_v2 row for its
\* project, whose stats are the counts it returns, in the step that ends the
\* run; that step comes after the full-text rebuild was attempted (with or
\* without success), which comes after the last file was processed and the
\* rows of the run were committed; no other step, and no aborting run,
\* appends a sync event.
AuditOrdered ==
    [][/\ (pc # "idle" /\ pc' = "idle" /\ ret'.status = "returned") =>
             /\ pc = "audit"
             /\ Len(sync_events') = Len(sync_events) + 1
             /\ SubSeq(sync_events', 1, Len(sync_events)) = sync_events
             /\ IsAuditOf(sync_events'[Len(sync_events')], run.project, ret'.stats)
             /\ ret'.project = run.project
       /\ ~(pc # "idle" /\ pc' = "idle" /\ ret'.status = "returned") =>
             sync_events' = sync_events
       /\ (pc # "audit" /\ pc' = "audit") => pc = "fts"
       /\ (pc # "fts" /\ pc' = "fts") =>
             /\ pc = "files" /\ run.pending = <<>>
             /\ run'.tx = EmptyTx
             /\ Len(code_chunks') = Len(code_chunks) + Len(run.tx.code_chunks)]_vars

\* a run that read files has returned after a failed rebuild of the indices
\* (the index is not the committed rows), and its sync event is the last row
AuditOrderedWitness ==
    /\ pc = "idle" /\ ret.status = "returned" /\ ret.stats.files > 0
    /\ fts.code_chunks # code_chunks
    /\ sync_events # <<>>
    /\ IsAuditOf(sync_events[Len(sync_events)], ret.project, ret.stats)

\* C24 as stated: after a completed sync of a project the file-index table
\* holds a row for every source file the run read.
FileIndexUpserted ==
    (pc = "idle" /\ ret.status = "returned") =>
        LET hits == ReadFiles(ret.files)
        IN \A k \in 1..Len(hits) :
              \E j \in 1..Len(file_index) :
                  /\ file_index[j].project_path = ret.project
                  /\ file_index[j].file_path = hits[k].path

\* C25: the chunks returned by TypeScriptChunker.chunk and SwiftChunker.chunk
\* are in strictly ascending order of start line, and each starts after the
\* end line of every earlier chunk: no two chunks share a line, and no chunk
\* starts inside the span of another chunk.
BracketDisjoint ==
    (cpc = "done" /\ input.ext \in {".ts", ".swift"}) =>
        /\ \A a, b \in 1..Len(output) :
              a < b => /\ output[a].start_line < output[b].start_line
                       /\ output[a].end_line < output[b].start_line
        /\ \A a, b \in 1..Len(output) :
              a # b => (output[a].start_line..output[a].end_line)
                          \cap (output[b].start_line..output[b].end_line) = {}

\* two chunks were returned, and a declaration on a line inside the span of
\* the first one, below its start, became no chunk
BracketDisjointWitness ==
    /\ cpc = "done" /\ input.ext \in {".ts", ".swift"}
    /\ Len(output) >= 2
    /\ \E j \in 1..Len(input.lines) :
          /\ MatchingPatterns(input.ext, input.lines[j]) # {}
          /\ output[1].start_line < j /\ j <= output[1].end_line
          /\ \A k \in 1..Len(output) : output[k].start_line # j

\* the first kind, in the order of the claim, whose pattern matches line l
FirstKind(l) ==
    LET order == <<"function", "arrow_function", "class", "interface", "component",
                   "hook", "export_default">>
        hits == {p \in 1..Len(order) : TSMatch(order[p], l)}
    IN order[CHOOSE p \in hits : \A q \in hits : p <= q]

\* C26: in TypeScriptChunker the candidates that share a start line have the
\* same end line, and the chunk that starts on a line is labelled with the
\* first of function, arrow_function, class, interface, component, hook,
\* export_default whose pattern matches the line; a declaration matched by
\* the function or arrow_function pattern is never labelled component or
\* hook, whatever its name.
KindPrecedence ==
    (cpc = "done" /\ input.ext = ".ts") =>
        /\ LET cands == TSCandidates(input.lines, 1)
           IN \A a, b \in 1..Len(cands) :
                 cands[a].start = cands[b].start => cands[a].end = cands[b].end
        /\ \A k \in 1..Len(output) :
              LET l == input.lines[output[k].start_line]
              IN /\ output[k].chunk_type = FirstKind(l)
                 /\ (TSMatch("function", l) \/ TSMatch("arrow_function", l)) =>
                       output[k].chunk_type \notin {"component", "hook"}

\* a function named like a hook was labelled function and an arrow function
\* named like a component was labelled arrow_function
KindPrecedenceWitness ==
    /\ cpc = "done" /\ input.ext = ".ts"
    /\ \E k \in 1..Len(output) :
          /\ output[k].chunk_type = "function"
          /\ TSMatch("hook", input.lines[output[k].start_line])
    /\ \E k \in 1..Len(output) :
          /\ output[k].chunk_type = "arrow_function"
          /\ TSMatch("component", input.lines[output[k].start_line])

\* the rows of a table, committed or in the open transaction of the run
WithTx(rows, txrows) == rows \o (IF pc = "files" THEN txrows ELSE <<>>)

\* C27: every file that sync enumerates has an extension of the chunker
\* registry, so that no chunk of kind 'file' is stored; a readable file in
\* which no pattern matches gives no chunk row and no symbol row, and is
\* counted in files.
FallbackUnreachable ==
    /\ \A P \in Projects :
          LET hits == FilesToProcess(tree[P])
          IN \A k \in 1..Len(hits) : PathInfo(hits[k].path).ext \in ChunkerExts
    /\ \A k \in 1..Len(WithTx(code_chunks, run.tx.code_chunks)) :
          WithTx(code_chunks, run.tx.code_chunks)[k].chunk_type # "file"
    /\ (pc = "idle" /\ ret.status = "returned") =>
          LET hits == ReadFiles(ret.files)
          IN /\ ret.stats.files = Len(hits)
             /\ \A k \in 1..Len(hits) :
                   ChunksOf(hits[k], Text(ret.files[hits[k].path])) = <<>> =>
                      /\ \A j \in 1..Len(code_chunks) :
                            code_chunks[j].file_path # hits[k].path
                      /\ \A j \in 1..Len(symbols) :
                            symbols[j].file_path # hits[k].path

\* a run has returned on a tree that holds a file without a registered
\* extension and two readable source files without a declaration: it counted
\* them and wrote no chunk
FallbackUnreachableWitness ==
    /\ pc = "idle" /\ ret.status = "returned"
    /\ ret.files[pR] = "md1" /\ ret.files[pM] = "py0" /\ ret.files[pC] = "ts0"
    /\ ret.stats.files = 2 /\ ret.stats.code_chunks = 0
    /\ code_chunks = <<>>

\* the step from committed rows old to committed rows new of one table is
\* none, the committed delete, or the commit of all rows of the run
AtomicStep(old, new, P, txrows, count) ==
    \/ new = old
    \/ new = <<>> /\ pc = "idle" /\ pc' = "files" /\ run'.project = P
    \/ /\ old = <<>> /\ new = txrows /\ Len(new) = count
       /\ pc = "files" /\ pc' = "fts" /\ run.project = P /\ run.pending = <<>>

\* C28: while sync(P) runs, the committed code_chunks and symbols rows of P
\* are never a proper non-empty subset of the rows of the run: every step
\* leaves them as they are, or removes them all (the committed delete), or
\* puts all rows of the run in place of none (the one commit of the
\* inserts); during the file loop there are none, after it all of them.
VisibleAtomically ==
    [][/\ \A P \in Projects :
             /\ AtomicStep(OfProject(code_chunks, P), OfProject(code_chunks', P), P,
                           run.tx.code_chunks, run'.stats.code_chunks)
             /\ AtomicStep(OfProject(symbols, P), OfProject(symbols', P), P,
                           run.tx.symbols, run'.stats.symbols)
       /\ pc' = "files" =>
             /\ OfProject(code_chunks', run'.project) = <<>>
             /\ OfProject(symbols', run'.project) = <<>>
       /\ pc' \in {"fts", "audit"} =>
             /\ Len(OfProject(code_chunks', run'.project)) = run'.stats.code_chunks
             /\ Len(OfProject(symbols', run'.project)) = run'.stats.symbols]_vars

\* the file loop of a run over a project that had rows has inserted the rows
\* of one file and has another file to go, and no row of the project is
\* committed
VisibleAtomicallyWitness ==
    /\ pc = "files" /\ run.pending # <<>>
    /\ run.tx.code_chunks # <<>> /\ run.tx.symbols # <<>>
    /\ hist[run.project].last.nchunks > 0
    /\ OfProject(code_chunks, run.project) = <<>>
    /\ OfProject(symbols, run.project) = <<>>

\* C29 as stated: a sync of P that fails with an exception after its delete
\* was committed leaves no code_chunks and no symbols rows of P, and returns
\* no counts.
AbortLeavesNone ==
    (pc = "idle" /\ ret.status = "raised") =>
        /\ OfProject(code_chunks, ret.project) = <<>>
        /\ OfProject(symbols, ret.project) = <<>>
        /\ ret.stats = Stats0

\* C29 amended: a sync of P that fails with an exception after its delete was
\* committed returns no counts, appends no sync event and keeps nothing of
\* its open transaction; when it fails before the commit of its inserts the
\* store is left with no code_chunks and no symbols rows of P (the previous
\* index is not restored), and when it fails after that commit, at the sync
\* event, the store is left with all rows of the run.
AbortLeavesCommitted ==
    [][(pc # "idle" /\ pc' = "idle" /\ ret'.status = "raised") =>
          /\ ret'.stats = Stats0
          /\ sync_events' = sync_events
          /\ code_chunks' = code_chunks /\ symbols' = symbols
          /\ components' = components
          /\ IF pc = "files"
             THEN /\ OfProject(code_chunks', run.project) = <<>>
                  /\ OfProject(symbols', run.project) = <<>>
             ELSE /\ Len(OfProject(code_chunks', run.project)) = run.stats.code_chunks
                  /\ Len(OfProject(symbols', run.project)) = run.stats.symbols]_vars

\* a re-sync of a project whose last completed sync left chunk rows has
\* raised, and the store holds no chunk and no symbol row of the project
AbortLeavesCommittedWitness ==
    /\ pc = "idle" /\ ret.status = "raised"
    /\ hist[ret.project].last.done /\ hist[ret.project].last.nchunks > 0
    /\ OfProject(code_chunks, ret.project) = <<>>
    /\ OfProject(symbols, ret.project) = <<>>

\* the components counted by the sync events of project P
RECURSIVE CountedComponents(_, _)
CountedComponents(events, P) ==
    IF events = <<>> THEN 0
    ELSE (IF Head(events).project_path = P THEN Head(events).stats_json.components ELSE 0)
         + CountedComponents(Tail(events), P)

\* the component results of a text search for the name of component row c
SameComponentHits(c) ==
    SelectSeq(text_search(fts.code_chunks, code_chunks, components, c.name, MaxLimit),
              LAMBDA h : h.type = "component" /\ h.name = c.name
                         /\ h.file_path = c.file_path)

\* C30: sync never deletes or replaces a row of the components table; the
\* commit of a run appends one row per file matched by a component pattern;
\* when every run started so far has completed, a project whose k completed
\* syncs each found the n component files of its tree has k*n component
\* rows, and text_search returns a component of it k times (up to limit).
ComponentsAccumulate ==
    [][/\ IsPrefix(components, components')
       /\ (pc = "files" /\ pc' = "fts") =>
             /\ Len(components') = Len(components)
                                      + Len(ComponentFiles(tree[run.project]))
             /\ \A j \in (Len(components) + 1)..Len(components') :
                   components'[j].project_path = run.project
       /\ ~(pc = "files" /\ pc' = "fts") => components' = components
       /\ \A P \in Projects :
             LET events == OfProject(sync_events, P)
                 k == Len(events)
                 n == Len(ComponentFiles(tree[P]))
                 rows == OfProject(components, P)
             IN (/\ pc = "idle" /\ Len(sync_events) = nsyncs
                 /\ \A e \in 1..k : events[e].stats_json.components = n) =>
                    /\ Len(rows) = k * n
                    /\ Len(rows) = CountedComponents(sync_events, P)
                    /\ \A j \in 1..Len(rows) :
                          Len(SameComponentHits(rows[j])) = Min(k, MaxLimit)]_vars

\* two syncs of a tree with one component file have completed: the table
\* holds two rows of the file and a text search returns the component twice
ComponentsAccumulateWitness ==
    \E P \in Projects :
        /\ pc = "idle" /\ Len(sync_events) = nsyncs
        /\ hist[P].prev.done /\ hist[P].last.done /\ hist[P].same
        /\ Len(OfProject(sync_events, P)) = 2
        /\ Len(ComponentFiles(tree[P])) = 1
        /\ Len(OfProject(components, P)) = 2
        /\ Len(SameComponentHits(OfProject(components, P)[1])) = 2

====
